---- MODULE Spec2Model ----
(***************************************************************************)
(* A model of the PDF utilities: the page-range parser of PDFSplitter,     *)
(* the page selection of the merge file list, the merge processor, the     *)
(* split tool's dividers and the Word conversion batch.                    *)
(*                                                                         *)
(* Strings the program parses are sequences of one-character strings, so   *)
(* that split, trim and parseInt are computed the way JavaScript computes  *)
(* them.                                                                   *)
(***************************************************************************)
EXTENDS Integers, Sequences, FiniteSets, TLC

(***************************************************************************)
(* Bounds of the model.                                                    *)
(***************************************************************************)
\* longest range text over the full alphabet
MaxLen == 4
\* longest range text over digits, ',' and '-' only
MaxTokLen == 5
\* largest page count of a document
MaxPages == 3
\* longest text typed into the page range input of a merge document
MaxInputLen == 3
\* most files handed to one merge
MaxFiles == 3
\* most merge invocations that overlap in time
MaxOps == 2
\* most conversion batches that overlap in time
MaxBatches == 2
\* longest text handed to wrapText
MaxWrapLen == 5
\* the widths handed to wrapText give at most about this many characters a line
MaxLineChars == 3
\* the highest page number handed to pagesToRangeText
MaxFormatPage == 8
\* the download URLs made and the confirm dialogs shown
MaxUrls == 2
MaxConfirms == 2
\* the most text blocks handed to addTextToPDF
MaxBlocks == 32
\* the most files of one selection
MaxAdded == 2
\* the pages of the longest file handed to generateThumbnails
MaxPreviewPages == 21

\* handleFileSelected asks for at most this many thumbnails
InitialThumbnails == 20

(***************************************************************************)
(* JavaScript string helpers.                                              *)
(***************************************************************************)
Digits == <<"0", "1", "2", "3", "4", "5", "6", "7", "8", "9">>
\* the characters a range text is typed from
Chars == {"0", "1", "2", "3", ",", "-", " ", "x"}
\* the characters of well-formed tokens
TokChars == {"1", "2", "3", ",", "-"}

\* parseInt's and isNaN's not-a-number
NaN == -1

DigitVal(c) == CHOOSE d \in 0..(Len(Digits) - 1) : Digits[d + 1] = c
IsDigit(c) == \E d \in 1..Len(Digits) : Digits[d] = c

\* String.prototype.split(sep): the pieces between every occurrence of sep
RECURSIVE SplitFrom(_, _, _, _, _)
SplitFrom(s, sep, i, cur, acc) ==
    IF i > Len(s) THEN Append(acc, cur)
    ELSE IF s[i] = sep THEN SplitFrom(s, sep, i + 1, <<>>, Append(acc, cur))
    ELSE SplitFrom(s, sep, i + 1, Append(cur, s[i]), acc)

Split(s, sep) == SplitFrom(s, sep, 1, <<>>, <<>>)

RECURSIVE TrimStart(_)
TrimStart(s) ==
    IF s # <<>> /\ Head(s) = " " THEN TrimStart(Tail(s)) ELSE s

RECURSIVE TrimEnd(_)
TrimEnd(s) ==
    IF s # <<>> /\ s[Len(s)] = " " THEN TrimEnd(SubSeq(s, 1, Len(s) - 1)) ELSE s

\* String.prototype.trim
Trim(s) == TrimEnd(TrimStart(s))

\* String.prototype.includes for a single character
Includes(s, c) == \E i \in 1..Len(s) : s[i] = c

\* the value of the longest prefix of digits of s in the radix, NaN if none
RECURSIVE DigitsPrefix(_, _, _, _)
DigitsPrefix(s, radix, i, acc) ==
    IF i <= Len(s) /\ IsDigit(s[i])
    THEN DigitsPrefix(s, radix, i + 1, (IF acc = NaN THEN 0 ELSE acc) * radix + DigitVal(s[i]))
    ELSE acc

\* parseInt(s) without a radix: leading white space is skipped, a 0x prefix
\* selects radix 16, parsing stops at the first character that is no digit.
\* (The texts hold no sign that reaches parseInt: '-' is split away first.)
ParseInt(s) ==
    LET t == TrimStart(s)
    IN IF Len(t) >= 2 /\ t[1] = "0" /\ t[2] = "x"
       THEN DigitsPrefix(SubSeq(t, 3, Len(t)), 16, 1, NaN)
       ELSE DigitsPrefix(t, 10, 1, NaN)

IsNaN(n) == n = NaN

(***************************************************************************)
(* PDFSplitter.validateAndParseRanges                                      *)
(***************************************************************************)
\* Array.prototype.sort((a, b) => a.start - b.start): a stable sort
RECURSIVE InsertByStart(_, _)
InsertByStart(sorted, r) ==
    IF sorted = <<>> THEN <<r>>
    ELSE IF sorted[Len(sorted)].start <= r.start THEN Append(sorted, r)
    ELSE Append(InsertByStart(SubSeq(sorted, 1, Len(sorted) - 1), r), sorted[Len(sorted)])

RECURSIVE SortFrom(_, _, _)
SortFrom(rs, i, acc) ==
    IF i > Len(rs) THEN acc ELSE SortFrom(rs, i + 1, InsertByStart(acc, rs[i]))

\* a sort that is not stable: a range is put before the ranges of equal start
RECURSIVE InsertBeforeEqual(_, _)
InsertBeforeEqual(sorted, r) ==
    IF sorted = <<>> THEN <<r>>
    ELSE IF sorted[Len(sorted)].start < r.start THEN Append(sorted, r)
    ELSE Append(InsertBeforeEqual(SubSeq(sorted, 1, Len(sorted) - 1), r), sorted[Len(sorted)])

RECURSIVE UnstableSortFrom(_, _, _)
UnstableSortFrom(rs, i, acc) ==
    IF i > Len(rs) THEN acc ELSE UnstableSortFrom(rs, i + 1, InsertBeforeEqual(acc, rs[i]))

UnstableSortByStart(rs) == UnstableSortFrom(rs, 1, <<>>)

SortByStart(rs) == SortFrom(rs, 1, <<>>)

Fail(msg) == [ok |-> FALSE, error |-> msg, ranges |-> <<>>]

Ok(ranges) == [ok |-> TRUE, error |-> "", ranges |-> ranges]

\* ParsePart without the upper bound check of a range's end
ParsePartEndUnchecked(part, totalPages) ==
    IF Includes(part, "-")
    THEN LET pieces == Split(part, "-")
             start  == ParseInt(Trim(pieces[1]))
             end    == ParseInt(Trim(pieces[2]))
         IN IF IsNaN(start) \/ IsNaN(end) THEN Fail("Invalid range")
            ELSE IF start < 1 \/ end < 1 \/ start > totalPages
                 THEN Fail("outside document bounds")
            ELSE IF start > end THEN Fail("start page must be <= end page")
            ELSE Ok(<<[start |-> start, end |-> end]>>)
    ELSE LET pageNum == ParseInt(part)
         IN IF IsNaN(pageNum) THEN Fail("Invalid page number")
            ELSE IF pageNum < 1 \/ pageNum > totalPages
                 THEN Fail("outside document bounds")
            ELSE Ok(<<[start |-> pageNum, end |-> pageNum]>>)

\* one comma-separated part, already trimmed and not empty
ParsePart(part, totalPages) ==
    IF Includes(part, "-")
    THEN LET pieces == Split(part, "-")
             start  == ParseInt(Trim(pieces[1]))
             end    == ParseInt(Trim(pieces[2]))
         IN IF IsNaN(start) \/ IsNaN(end) THEN Fail("Invalid range")
            ELSE IF start < 1 \/ end < 1 \/ start > totalPages \/ end > totalPages
                 THEN Fail("outside document bounds")
            ELSE IF start > end THEN Fail("start page must be <= end page")
            ELSE Ok(<<[start |-> start, end |-> end]>>)
    ELSE LET pageNum == ParseInt(part)
         IN IF IsNaN(pageNum) THEN Fail("Invalid page number")
            ELSE IF pageNum < 1 \/ pageNum > totalPages
                 THEN Fail("outside document bounds")
            ELSE Ok(<<[start |-> pageNum, end |-> pageNum]>>)

\* the loop over the parts: the first failing part throws
RECURSIVE ParseParts(_, _, _, _)
ParseParts(parts, totalPages, i, ranges) ==
    IF i > Len(parts) THEN Ok(ranges)
    ELSE LET part == Trim(parts[i])
         IN IF part = <<>> THEN ParseParts(parts, totalPages, i + 1, ranges)
            ELSE LET r == ParsePart(part, totalPages)
                 IN IF r.ok THEN ParseParts(parts, totalPages, i + 1, ranges \o r.ranges)
                    ELSE r

\* validateAndParseRanges without the check that some range was found
validateAndParseRangesNoEmptyCheck(rangesString, totalPages) ==
    IF rangesString = <<>> \/ Trim(rangesString) = <<>>
    THEN Fail("Please enter page ranges")
    ELSE LET r == ParseParts(Split(rangesString, ","), totalPages, 1, <<>>)
         IN IF ~r.ok THEN r
            ELSE Ok(SortByStart(r.ranges))

validateAndParseRanges(rangesString, totalPages) ==
    IF rangesString = <<>> \/ Trim(rangesString) = <<>>
    THEN Fail("Please enter page ranges")
    ELSE LET r == ParseParts(Split(rangesString, ","), totalPages, 1, <<>>)
         IN IF ~r.ok THEN r
            ELSE IF Len(r.ranges) = 0 THEN Fail("No valid page ranges found")
            ELSE Ok(SortByStart(r.ranges))

(***************************************************************************)
(* FileListManager: the page selection of one document of the merge list.  *)
(***************************************************************************)
\* Number.prototype.toString of a page number
RECURSIVE NumToStr(_)
NumToStr(n) ==
    IF n < 10 THEN <<Digits[n + 1]>>
    ELSE Append(NumToStr(n \div 10), Digits[(n % 10) + 1])

\* the elements of a set of numbers in ascending order: sort((a, b) => a - b)
RECURSIVE SortedSeq(_)
SortedSeq(S) ==
    IF S = {} THEN <<>>
    ELSE LET m == CHOOSE x \in S : \A y \in S : x <= y
         IN <<m>> \o SortedSeq(S \ {m})

\* a part whose range would stop one page short of its end
PagesOfPartEndExclusive(part, totalPages) ==
    IF Includes(part, "-")
    THEN LET pieces == Split(part, "-")
             start  == ParseInt(Trim(pieces[1]))
             end    == ParseInt(Trim(pieces[2]))
         IN IF ~IsNaN(start) /\ ~IsNaN(end) /\ start >= 1 /\ end <= totalPages /\ start <= end
            THEN start..(end - 1)
            ELSE {}
    ELSE LET pageNum == ParseInt(part)
         IN IF ~IsNaN(pageNum) /\ pageNum >= 1 /\ pageNum <= totalPages
            THEN {pageNum}
            ELSE {}

\* the pages one part of the range text adds; a part that is not valid adds none
PagesOfPart(part, totalPages) ==
    IF Includes(part, "-")
    THEN LET pieces == Split(part, "-")
             start  == ParseInt(Trim(pieces[1]))
             end    == ParseInt(Trim(pieces[2]))
         IN IF ~IsNaN(start) /\ ~IsNaN(end) /\ start >= 1 /\ end <= totalPages /\ start <= end
            THEN start..end
            ELSE {}
    ELSE LET pageNum == ParseInt(part)
         IN IF ~IsNaN(pageNum) /\ pageNum >= 1 /\ pageNum <= totalPages
            THEN {pageNum}
            ELSE {}

\* FileListManager.parsePageRanges: the pages of the valid parts, each once,
\* in ascending order
parsePageRanges(rangeText, totalPages) ==
    LET parts == Split(rangeText, ",")
    IN SortedSeq(UNION {PagesOfPart(Trim(parts[i]), totalPages) :
                           i \in {j \in 1..Len(parts) : Trim(parts[j]) # <<>>}})

SeqRange(q) == {q[i] : i \in 1..Len(q)}

\* FileListManager.updateCheckboxesFromRange: the checked state of every
\* checkbox becomes whether its page is among the parsed pages
updateCheckboxesFromRange(rangeText, checkboxes, totalPages) ==
    {p \in checkboxes : p \in SeqRange(parsePageRanges(rangeText, totalPages))}

\* run texts that would write a run of two pages as a range of its ends only
\* when it is longer than two pages
RECURSIVE RunTextsLongOnly(_, _, _, _)
RunTextsLongOnly(pages, i, start, end) ==
    LET text == IF start = end THEN NumToStr(start)
                ELSE IF end = start + 1 THEN NumToStr(start) \o <<",", " ">> \o NumToStr(end)
                ELSE NumToStr(start) \o <<"-">> \o NumToStr(end)
    IN IF i > Len(pages) THEN <<text>>
       ELSE IF pages[i] = end + 1 THEN RunTextsLongOnly(pages, i + 1, start, pages[i])
       ELSE <<text>> \o RunTextsLongOnly(pages, i + 1, pages[i], pages[i])

\* the texts of the runs of consecutive pages of a sorted list, from index i
RECURSIVE RunTexts(_, _, _, _)
RunTexts(pages, i, start, end) ==
    LET text == IF start = end THEN NumToStr(start)
                ELSE NumToStr(start) \o <<"-">> \o NumToStr(end)
    IN IF i > Len(pages) THEN <<text>>
       ELSE IF pages[i] = end + 1 THEN RunTexts(pages, i + 1, start, pages[i])
       ELSE <<text>> \o RunTexts(pages, i + 1, pages[i], pages[i])

\* Array.prototype.join(', ')
RECURSIVE Join(_)
Join(texts) ==
    IF Len(texts) = 0 THEN <<>>
    ELSE IF Len(texts) = 1 THEN texts[1]
    ELSE texts[1] \o <<",", " ">> \o Join(Tail(texts))

\* FileListManager.pagesToRangeText
pagesToRangeText(pages) ==
    IF Len(pages) = 0 THEN <<>>
    ELSE LET sorted == SortedSeq(SeqRange(pages))
         IN Join(RunTexts(sorted, 2, sorted[1], sorted[1]))

(***************************************************************************)
(* PDFProcessor: mergePDFs and cancel.                                     *)
(*                                                                         *)
(* An invocation of mergePDFs is a record that moves from one await to the *)
(* next.  The read and the load of a file (two awaits with nothing         *)
(* observable between them) are one step, and createPDFDocument is part of *)
(* the first file's step.                                                  *)
(***************************************************************************)
\* the documents a merge is handed
MergeFiles == {"A", "B", "C"}

\* pdf.getPageCount() of each document
PageCountOf(f) == CASE f = "A" -> 1
                    [] f = "B" -> MaxPages
                    [] OTHER   -> 2

\* the lists of distinct documents of at most n entries
RECURSIVE ListsUpTo(_, _)
ListsUpTo(F, n) ==
    IF n = 0 THEN {<<>>}
    ELSE LET shorter == ListsUpTo(F, n - 1)
         IN shorter \cup {Append(l, f) : l \in shorter, f \in F}

FileLists == {l \in ListsUpTo(MergeFiles, MaxFiles) :
                 \A i, j \in 1..Len(l) : i # j => l[i] # l[j]}

\* the sorted lists of pages of a document: what getSelectedPages puts in the map
PageLists(f) == {SortedSeq(S) : S \in SUBSET (1..PageCountOf(f))}

\* selectedPages = null
SimpleMode == [advanced |-> FALSE, pages |-> <<>>]

\* the selectedPages maps over some of the documents of a list
AdvancedModes(files) ==
    UNION {{[advanced |-> TRUE, pages |-> pm] :
               pm \in {g \in [D -> UNION {PageLists(f) : f \in D}] :
                          \A f \in D : g[f] \in PageLists(f)}} :
           D \in SUBSET SeqRange(files)}

NoResult == [kind |-> "none", file |-> "", pages |-> <<>>, message |-> ""]

IdleMerge == [pc |-> "idle", files |-> <<>>, sel |-> SimpleMode, i |-> 0,
              out |-> <<>>, failed |-> {}, result |-> NoResult]

Rejected(msg) == [kind |-> "error", file |-> "", pages |-> <<>>, message |-> msg]

\* selectedPages && selectedPages.has(file)
HasEntry(sel, f) == sel.advanced /\ f \in DOMAIN sel.pages

\* the pages a document with no entry in the map would give if such a
\* document were left out
PagesOfNoEntryNone(sel, f) ==
    IF HasEntry(sel, f) THEN sel.pages[f] ELSE <<>>

\* all pages that would leave the last page of the document out
PagesOfAllButLast(sel, f) ==
    IF HasEntry(sel, f) THEN sel.pages[f]
    ELSE [k \in 1..(PageCountOf(f) - 1) |-> k]

\* "Determine which pages to include": the page numbers copied from f
PagesOf(sel, f) ==
    IF HasEntry(sel, f) THEN sel.pages[f]
    ELSE [k \in 1..PageCountOf(f) |-> k]

\* pages.map(pageNum => pageNum - 1)
PageIndices(sel, f) == [k \in 1..Len(PagesOf(sel, f)) |-> PagesOf(sel, f)[k] - 1]

\* the next iteration of the loop over the files
NextFile(m) ==
    [m EXCEPT !.i = m.i + 1,
              !.pc = IF m.i + 1 > Len(m.files) THEN "save" ELSE "load"]

\* a per-file catch that would skip the file and go on
FileErrorSkipped(m) == [NextFile(m) EXCEPT !.failed = @ \cup {m.files[m.i]}]

\* the per-file catch rethrows, the outer catch wraps: the merge is over
FileError(m) ==
    [m EXCEPT !.pc = "failed",
              !.failed = @ \cup {m.files[m.i]},
              !.result = [kind |-> "error", file |-> m.files[m.i], pages |-> <<>>,
                          message |-> "PDF merge failed: Failed to process"]]

\* a load after which an empty entry would be copied like any other
AfterLoadNoSkip(m) == [m EXCEPT !.pc = "copy"]

\* the PDF of files[i] is loaded: an empty entry skips the copy
AfterLoad(m) ==
    IF HasEntry(m.sel, m.files[m.i]) /\ Len(m.sel.pages[m.files[m.i]]) = 0
    THEN NextFile(m)
    ELSE [m EXCEPT !.pc = "copy"]

\* copyPages resolved: every copied page is added to the merged document
AfterCopy(m) ==
    LET f   == m.files[m.i]
        idx == PageIndices(m.sel, f)
    IN NextFile([m EXCEPT !.out = @ \o [k \in 1..Len(idx) |-> [file |-> f, page |-> idx[k] + 1]]])

(***************************************************************************)
(* State.                                                                  *)
(***************************************************************************)
VARIABLES
    \* the range parser
    rangesString,   \* the text handed to validateAndParseRanges
    totalPages,     \* the page count of the document it is parsed for
    parsed,         \* what validateAndParseRanges returned or threw
    \* the page selection of one document of the merge list
    docPages,       \* the document's page count: one checkbox per page
    rangeInput,     \* the value of the document's page range input
    checked,        \* the pages whose checkbox is checked
    \* the merge processor
    merges,         \* the invocations of mergePDFs, by slot
    procBusy,       \* PDFProcessor.isProcessing
    \* the split tool
    currentFile,    \* SplitTool.currentFile: the page count of the file, 0 for null
    pageCount,      \* SplitTool.pageCount
    currentThumbnails, \* currentThumbnails.thumbnails.length, 0 for null
    splitDividers,  \* SplitTool.splitDividers
    splitMethod,    \* the checked radio button: "ranges", "visual" or "all"
    placeholders,   \* data-after-page of the divider placeholders in the container
    visualShown,    \* visual-page-selection is displayed
    optionsShown,   \* split-options-section is displayed
    pendingFile,    \* the file handleFileSelected is working on, 0 for none
    loadPc,         \* where handleFileSelected is: "idle", "count" or "thumbs"
    visualPending,  \* the thumbnails showCombinedVisualSelection awaits, 0 for none
    pageBoxes,      \* data-page of the page checkboxes in the container
    checkedPages,   \* data-page of the checked ones
    pageRangesText, \* the value of the page-ranges input
    preview,        \* the ranges of the split-preview element, <<>> for none
    \* the Word conversion tool
    selectedFiles,  \* WordConvertTool.selectedFiles
    convBusy,       \* WordToPDFConverter.isProcessing
    batches,        \* the invocations of handleConvertRequest, by slot
    \* WordToPDFConverter.wrapText
    wrapInput,      \* the text argument
    wrapWidth,      \* the maxWidth argument
    wrapFontSize,   \* the fontSize argument
    wrapped,        \* the lines it returned
    \* the splitter
    splits,         \* the invocations of splitPDF and splitIntoIndividualPages, by slot
    splitterBusy,   \* PDFSplitter.isProcessing
    \* FileListManager.pagesToRangeText
    formatInput,    \* the pages argument
    formatted,      \* the text it returned
    \* AppController, UIController and FileListManager of the merge tool
    stateFiles,         \* AppController.state.files
    stateIsProcessing,  \* AppController.state.isProcessing
    requestPc,          \* where handleMergeRequest stands
    requestFiles,       \* the array validateMultiplePDFs was called with
    validationResults,  \* results of validateMultiplePDFs so far
    proceed,            \* the last answer to confirm(): "none" when not asked
    confirmsShown,      \* how many confirm() dialogs were shown
    sections,           \* UIController.sections: which are displayed
    mergeBtnEnabled,    \* !elements.mergeBtn.disabled
    lastResult,         \* state.lastResult.downloadUrl, 0 for null
    downloadBtn,        \* the URL the button in result-downloads downloads, 0: no button
    revokedUrls,        \* the URLs passed to URL.revokeObjectURL
    urlsCreated,        \* how many URLs URL.createObjectURL has made
    currentTool,        \* ToolManager.currentTool
    listFiles,          \* FileListManager.files
    thumbnailsData,     \* the keys of FileListManager.thumbnailsData
    adds,               \* the pending addFiles
    \* WordToPDFConverter.addTextToPDF
    textContent,        \* the text blocks of extractTextFromHTML
    fileName,           \* the name of the Word file
    layoutPc,           \* "idle", "done" or "failed"
    pdfPages,           \* the pages of pdfDoc, each the texts drawn on it
    \* PDFPreview
    thumbnailCache,     \* the cached result of each file, NoThumbnails when it has none
    thumbnailCall       \* the last call of generateThumbnails

parseVars == <<rangesString, totalPages, parsed>>
selVars == <<docPages, rangeInput, checked>>
mergeVars == <<merges, procBusy>>
toolVars == <<currentFile, pageCount, currentThumbnails, splitDividers, splitMethod,
              placeholders, visualShown, optionsShown, pendingFile, loadPc, visualPending,
              pageBoxes, checkedPages, pageRangesText, preview>>
convVars == <<selectedFiles, convBusy, batches>>
wrapVars == <<wrapInput, wrapWidth, wrapFontSize, wrapped>>
splitterVars == <<splits, splitterBusy>>
formatVars == <<formatInput, formatted>>
layoutVars == <<textContent, fileName, layoutPc, pdfPages>>
previewVars == <<thumbnailCache, thumbnailCall>>
appVars == <<stateFiles, stateIsProcessing, requestPc, requestFiles, validationResults, proceed,
             confirmsShown, sections, mergeBtnEnabled, lastResult, downloadBtn, revokedUrls,
             urlsCreated, currentTool, listFiles, thumbnailsData, adds>>
vars == <<parseVars, selVars, mergeVars, toolVars, convVars, wrapVars, splitterVars, formatVars, appVars, layoutVars, previewVars>>

exceptParse == <<selVars, mergeVars, toolVars, convVars, wrapVars, splitterVars, formatVars, appVars, layoutVars, previewVars>>
exceptSel == <<parseVars, mergeVars, toolVars, convVars, wrapVars, splitterVars, formatVars, appVars, layoutVars, previewVars>>
exceptMerge == <<parseVars, selVars, toolVars, convVars, wrapVars, splitterVars, formatVars, appVars, layoutVars, previewVars>>
exceptTool == <<parseVars, selVars, mergeVars, convVars, wrapVars, splitterVars, formatVars, appVars, layoutVars, previewVars>>
exceptConv == <<parseVars, selVars, mergeVars, toolVars, wrapVars, splitterVars, formatVars, appVars, layoutVars, previewVars>>
exceptWrap == <<parseVars, selVars, mergeVars, toolVars, convVars, splitterVars, formatVars, appVars, layoutVars, previewVars>>
exceptSplitter == <<parseVars, selVars, mergeVars, toolVars, convVars, wrapVars, formatVars, appVars, layoutVars, previewVars>>
exceptFormat == <<parseVars, selVars, mergeVars, toolVars, convVars, wrapVars, splitterVars, appVars, layoutVars, previewVars>>
exceptApp == <<parseVars, selVars, mergeVars, toolVars, convVars, wrapVars, splitterVars, formatVars, layoutVars, previewVars>>
exceptLayout == <<parseVars, selVars, mergeVars, toolVars, convVars, wrapVars, splitterVars, formatVars, appVars, previewVars>>
exceptPreview == <<parseVars, selVars, mergeVars, toolVars, convVars, wrapVars, splitterVars, formatVars, appVars, layoutVars>>

Ops == 1..MaxOps

\* the texts of at most n characters over the alphabet cs
RECURSIVE TextsUpTo(_, _)
TextsUpTo(cs, n) ==
    IF n = 0 THEN {<<>>}
    ELSE LET shorter == TextsUpTo(cs, n - 1)
         IN shorter \cup {Append(t, c) : t \in shorter, c \in cs}

Texts == TextsUpTo(Chars, MaxLen) \cup TextsUpTo(TokChars, MaxTokLen)

NotParsed == [ok |-> FALSE, error |-> "not parsed", ranges |-> <<>>]

\* the state of a component nothing has been done with
ParseIdle ==
    /\ rangesString = <<>>
    /\ totalPages = 1
    /\ parsed = NotParsed

SelIdle ==
    /\ docPages = 1
    /\ rangeInput = <<>>
    /\ checked = {1}

MergeIdle ==
    /\ merges = [op \in Ops |-> IdleMerge]
    /\ procBusy = FALSE

\* the split tool after its constructor
ToolIdle ==
    /\ currentFile = 0
    /\ pageCount = 0
    /\ currentThumbnails = 0
    /\ splitDividers = {}
    /\ splitMethod = "ranges"
    /\ placeholders = {}
    /\ visualShown = FALSE
    /\ optionsShown = FALSE
    /\ pendingFile = 0
    /\ loadPc = "idle"
    /\ visualPending = 0
    /\ pageBoxes = {}
    /\ checkedPages = {}
    /\ pageRangesText = <<>>
    /\ preview = <<>>

IdleBatch == [pc |-> "idle", i |-> 0, results |-> <<>>, outcomes |-> <<>>]

Batches == 1..MaxBatches

\* the conversion tool after its constructor
ConvIdle ==
    /\ selectedFiles = <<>>
    /\ convBusy = FALSE
    /\ batches = [b \in Batches |-> IdleBatch]

NotWrapped == [done |-> FALSE, lines |-> <<>>]

WrapIdle ==
    /\ wrapInput = <<>>
    /\ wrapWidth = 0
    /\ wrapFontSize = 12
    /\ wrapped = NotWrapped

NoRange == [start |-> 0, end |-> 0]

IdleSplit == [pc |-> "idle", mode |-> "ranges", doc |-> [base |-> "", ext |-> "", pages |-> 0],
              text |-> <<>>, pages |-> <<>>, ranges |-> <<>>, i |-> 0, results |-> <<>>,
              error |-> ""]

SplitterIdle ==
    /\ splits = [op \in Ops |-> IdleSplit]
    /\ splitterBusy = FALSE

NotFormatted == [done |-> FALSE, text |-> <<>>]

FormatIdle ==
    /\ formatInput = <<>>
    /\ formatted = NotFormatted

\* no section is displayed
NoSections == [fileList |-> FALSE, progress |-> FALSE, result |-> FALSE, error |-> FALSE]

IdleAdd == [pc |-> "idle", newFiles |-> <<>>, i |-> 0]

\* the merge tool after the constructors
AppIdle ==
    /\ stateFiles = <<>>
    /\ stateIsProcessing = FALSE
    /\ requestPc = "idle"
    /\ requestFiles = <<>>
    /\ validationResults = <<>>
    /\ proceed = "none"
    /\ confirmsShown = 0
    /\ sections = NoSections
    /\ mergeBtnEnabled = FALSE
    /\ lastResult = 0
    /\ downloadBtn = 0
    /\ revokedUrls = {}
    /\ urlsCreated = 0
    /\ currentTool = "merge"
    /\ listFiles = <<>>
    /\ thumbnailsData = {}
    /\ adds = IdleAdd

\* the files generateThumbnails is called with, each known by its page count
PreviewDocs == {1, InitialThumbnails, MaxPreviewPages}

NoThumbnails == [thumbnails |-> <<>>, totalPages |-> 0, hasMore |-> FALSE, error |-> "none"]

NoCall == [pc |-> "idle", file |-> 0, maxPages |-> 0, result |-> NoThumbnails]

\* PDFPreview after its constructor
PreviewIdle ==
    /\ thumbnailCache = [file \in PreviewDocs |-> NoThumbnails]
    /\ thumbnailCall = NoCall

\* no document is being laid out
LayoutIdle ==
    /\ textContent = <<>>
    /\ fileName = [base |-> "", ext |-> ""]
    /\ layoutPc = "idle"
    /\ pdfPages = <<>>

OthersIdle(groups) ==
    /\ IF "preview" \in groups THEN TRUE ELSE PreviewIdle
    /\ IF "layout" \in groups THEN TRUE ELSE LayoutIdle
    /\ IF "app" \in groups THEN TRUE ELSE AppIdle
    /\ IF "format" \in groups THEN TRUE ELSE FormatIdle
    /\ IF "splitter" \in groups THEN TRUE ELSE SplitterIdle
    /\ IF "wrap" \in groups THEN TRUE ELSE WrapIdle
    /\ IF "parse" \in groups THEN TRUE ELSE ParseIdle
    /\ IF "sel" \in groups THEN TRUE ELSE SelIdle
    /\ IF "merge" \in groups THEN TRUE ELSE MergeIdle
    /\ IF "tool" \in groups THEN TRUE ELSE ToolIdle
    /\ IF "conv" \in groups THEN TRUE ELSE ConvIdle

(***************************************************************************)
(* The range parser applied to every text.                                 *)
(***************************************************************************)
InitParse ==
    /\ rangesString \in Texts
    /\ totalPages \in 1..MaxPages
    /\ parsed = NotParsed
    /\ OthersIdle({"parse"})

Parse ==
    /\ parsed = NotParsed
    /\ parsed' = validateAndParseRanges(rangesString, totalPages)
    /\ UNCHANGED <<rangesString, totalPages, exceptParse>>

NextParse == Parse

Spec == InitParse /\ [][NextParse]_vars

(***************************************************************************)
(* The page selection of a merge document under live editing.              *)
(***************************************************************************)
InitSelection ==
    /\ docPages \in 1..MaxPages
    /\ rangeInput = <<>>
    /\ checked = 1..docPages
    /\ OthersIdle({"sel"})

\* the 'input' listener of the range input, after the value changed
OnRangeInput(value) ==
    /\ rangeInput' = value
    /\ checked' = updateCheckboxesFromRange(value, 1..docPages, docPages)
    /\ UNCHANGED <<docPages, exceptSel>>

\* the user types a character at the end of the range input
TypeChar ==
    \E c \in Chars :
        /\ Len(rangeInput) < MaxInputLen
        /\ OnRangeInput(Append(rangeInput, c))

\* the user deletes the last character of the range input
DeleteChar ==
    /\ rangeInput # <<>>
    /\ OnRangeInput(SubSeq(rangeInput, 1, Len(rangeInput) - 1))

\* the user clicks a page checkbox: its 'change' listener rewrites the text
ToggleCheckbox ==
    \E p \in 1..docPages :
        /\ checked' = IF p \in checked THEN checked \ {p} ELSE checked \cup {p}
        /\ rangeInput' = pagesToRangeText(SortedSeq(checked'))
        /\ UNCHANGED <<docPages, exceptSel>>

\* the user picks the 'all' radio button
SelectAllRadio ==
    /\ rangeInput' = <<>>
    /\ checked' = 1..docPages
    /\ UNCHANGED <<docPages, exceptSel>>

NextSelection == TypeChar \/ DeleteChar \/ ToggleCheckbox \/ SelectAllRadio

SpecSelection == InitSelection /\ [][NextSelection]_vars

(***************************************************************************)
(* PDFProcessor.mergePDFs, step by step.                                   *)
(***************************************************************************)
\* a call that would merge a single document like any other list
MergeCallNoShortcut(op, files, sel) ==
    /\ merges[op].pc = "idle"
    /\ IF procBusy
       THEN /\ merges' = [merges EXCEPT ![op] =
                   [IdleMerge EXCEPT !.pc = "rejected", !.files = files, !.sel = sel,
                       !.result = Rejected("PDF processing is already in progress")]]
            /\ UNCHANGED procBusy
       ELSE IF Len(files) = 0
       THEN /\ merges' = [merges EXCEPT ![op] =
                   [IdleMerge EXCEPT !.pc = "rejected", !.files = files, !.sel = sel,
                       !.result = Rejected("No files provided for merging")]]
            /\ UNCHANGED procBusy
       ELSE /\ merges' = [merges EXCEPT ![op] =
                   [IdleMerge EXCEPT !.pc = "load", !.files = files, !.sel = sel, !.i = 1]]
            /\ procBusy' = TRUE
    /\ UNCHANGED exceptMerge

\* mergePDFs(files, selectedPages) is called: the code up to its first await
MergeCall(op, files, sel) ==
    /\ merges[op].pc = "idle"
    /\ IF procBusy
       THEN /\ merges' = [merges EXCEPT ![op] =
                   [IdleMerge EXCEPT !.pc = "rejected", !.files = files, !.sel = sel,
                       !.result = Rejected("PDF processing is already in progress")]]
            /\ UNCHANGED procBusy
       ELSE IF Len(files) = 0
       THEN /\ merges' = [merges EXCEPT ![op] =
                   [IdleMerge EXCEPT !.pc = "rejected", !.files = files, !.sel = sel,
                       !.result = Rejected("No files provided for merging")]]
            /\ UNCHANGED procBusy
       ELSE IF Len(files) = 1 /\ ~HasEntry(sel, files[1])
       THEN /\ merges' = [merges EXCEPT ![op] =
                   [IdleMerge EXCEPT !.pc = "passthrough", !.files = files, !.sel = sel]]
            /\ UNCHANGED procBusy
       ELSE /\ merges' = [merges EXCEPT ![op] =
                   [IdleMerge EXCEPT !.pc = "load", !.files = files, !.sel = sel, !.i = 1]]
            /\ procBusy' = TRUE
    /\ UNCHANGED exceptMerge

\* a step of an invocation that set the busy flag: finally clears the flag
\* when the step ends the invocation
MergeStep(op, after) ==
    /\ merges' = [merges EXCEPT ![op] = after]
    /\ procBusy' = IF after.pc \in {"done", "failed"} THEN FALSE ELSE procBusy
    /\ UNCHANGED exceptMerge

\* fileToUint8Array of the only file resolves or rejects
Passthrough(op) ==
    /\ merges[op].pc = "passthrough"
    /\ \E readable \in BOOLEAN :
          merges' = [merges EXCEPT ![op] =
              IF readable
              THEN [merges[op] EXCEPT !.pc = "done",
                       !.result = [kind |-> "bytes", file |-> merges[op].files[1],
                                   pages |-> <<>>, message |-> ""]]
              ELSE [merges[op] EXCEPT !.pc = "failed", !.failed = {merges[op].files[1]},
                       !.result = [kind |-> "error", file |-> merges[op].files[1],
                                   pages |-> <<>>, message |-> "Failed to read file"]]]
    /\ UNCHANGED <<procBusy, exceptMerge>>

\* fileToArrayBuffer and loadPDFFromBytes of files[i] resolve, or one rejects
LoadFile(op) ==
    /\ merges[op].pc = "load"
    /\ \E loads \in BOOLEAN :
          MergeStep(op, IF loads THEN AfterLoad(merges[op]) ELSE FileError(merges[op]))

\* copyPages of files[i] resolves or rejects
CopyPages(op) ==
    /\ merges[op].pc = "copy"
    /\ \E copies \in BOOLEAN :
          MergeStep(op, IF copies THEN AfterCopy(merges[op]) ELSE FileError(merges[op]))

\* mergedPdf.save() resolves or rejects
SaveMerged(op) ==
    /\ merges[op].pc = "save"
    /\ \E saves \in BOOLEAN :
          MergeStep(op,
              IF saves
              THEN [merges[op] EXCEPT !.pc = "done",
                       !.result = [kind |-> "merged", file |-> "", pages |-> merges[op].out,
                                   message |-> ""]]
              ELSE [merges[op] EXCEPT !.pc = "failed",
                       !.result = [kind |-> "error", file |-> "", pages |-> <<>>,
                                   message |-> "PDF merge failed: save"]])

\* the caller has taken the settled promise: the slot is free again
MergeSettled(op) ==
    /\ merges[op].pc \in {"done", "failed", "rejected"}
    /\ merges' = [merges EXCEPT ![op] = IdleMerge]
    /\ UNCHANGED <<procBusy, exceptMerge>>

\* a cancel that would end the invocations in flight
CancelAborts ==
    /\ procBusy' = FALSE
    /\ merges' = [op \in Ops |->
                     IF merges[op].pc \in {"load", "copy", "save"}
                     THEN [merges[op] EXCEPT !.pc = "failed",
                             !.result = Rejected("PDF merge failed: cancelled")]
                     ELSE merges[op]]
    /\ UNCHANGED exceptMerge

\* PDFProcessor.cancel()
Cancel ==
    /\ procBusy' = FALSE
    /\ UNCHANGED <<merges, exceptMerge>>

(***************************************************************************)
(* One merge at a time, over every list of documents and every selection.  *)
(***************************************************************************)
InitMerge == OthersIdle({})

CallAnyMerge ==
    \E files \in FileLists :
        \E sel \in {SimpleMode} \cup AdvancedModes(files) : MergeCall(1, files, sel)

NextMerge ==
    \/ CallAnyMerge
    \/ Passthrough(1)
    \/ LoadFile(1)
    \/ CopyPages(1)
    \/ SaveMerged(1)
    \/ MergeSettled(1)

SpecMerge == InitMerge /\ [][NextMerge]_vars

(***************************************************************************)
(* Overlapping invocations of mergePDFs and calls of cancel.               *)
(***************************************************************************)
\* the lists and selections the overlapping invocations are called with
OverlapLists == {<<>>, <<"A">>, <<"A", "C">>}
OverlapModes == {SimpleMode, [advanced |-> TRUE, pages |-> [f \in {"A"} |-> <<1>>]]}

CallOverlapping ==
    \E op \in Ops, files \in OverlapLists, sel \in OverlapModes : MergeCall(op, files, sel)

NextOverlap ==
    \/ CallOverlapping
    \/ \E op \in Ops : Passthrough(op)
    \/ \E op \in Ops : LoadFile(op)
    \/ \E op \in Ops : CopyPages(op)
    \/ \E op \in Ops : SaveMerged(op)
    \/ \E op \in Ops : MergeSettled(op)
    \/ Cancel

SpecOverlap == InitMerge /\ [][NextOverlap]_vars

\* a pending read, load, copy or save settles: the event loop runs its
\* continuation
OverlapSettles(op) == Passthrough(op) \/ LoadFile(op) \/ CopyPages(op) \/ SaveMerged(op)

SpecOverlapFair == SpecOverlap /\ \A op \in Ops : WF_vars(OverlapSettles(op))

(***************************************************************************)
(* SplitTool: the file, the split method, the dividers, the page           *)
(* checkboxes and the preview.                                             *)
(*                                                                         *)
(* A file is known by its page count.  One handleFileSelected and one      *)
(* thumbnail generation of showCombinedVisualSelection are pending at a    *)
(* time.  The divider and checkbox controls are clicked only while both    *)
(* the options section and the visual selection are displayed.             *)
(***************************************************************************)
Min(a, b) == IF a < b THEN a ELSE b

\* the values typed into the page-ranges input
ToolTexts == {<<>>, <<"1">>, <<"2", "-", "3">>}

\* SplitTool.getDividerRanges: the loop over the sorted divider positions from
\* index i on, then the final range if pages remain
RECURSIVE DividerRangesFromDropLast(_, _, _, _)
DividerRangesFromDropLast(dividerPositions, i, start, count) ==
    IF i > Len(dividerPositions)
    THEN IF start < count THEN <<[start |-> start, end |-> count]>> ELSE <<>>
    ELSE <<[start |-> start, end |-> dividerPositions[i]]>>
         \o DividerRangesFromDropLast(dividerPositions, i + 1, dividerPositions[i] + 1, count)

RECURSIVE DividerRangesFrom(_, _, _, _)
DividerRangesFrom(dividerPositions, i, start, count) ==
    IF i > Len(dividerPositions)
    THEN IF start <= count THEN <<[start |-> start, end |-> count]>> ELSE <<>>
    ELSE <<[start |-> start, end |-> dividerPositions[i]]>>
         \o DividerRangesFrom(dividerPositions, i + 1, dividerPositions[i] + 1, count)

getDividerRanges(dividers, count) == DividerRangesFrom(SortedSeq(dividers), 1, 1, count)

\* SplitTool.getVisuallySelectedPages: the pages of the checked boxes, sorted
getVisuallySelectedPages(checkedBoxes) == SortedSeq(checkedBoxes)

\* SplitTool.convertPagesToRanges: the loop from index i on, then the last push
RECURSIVE RunsFrom(_, _, _, _)
RunsFrom(pages, i, start, end) ==
    IF i > Len(pages) THEN <<[start |-> start, end |-> end]>>
    ELSE IF pages[i] = end + 1 THEN RunsFrom(pages, i + 1, start, pages[i])
    ELSE <<[start |-> start, end |-> end]>> \o RunsFrom(pages, i + 1, pages[i], pages[i])

convertPagesToRanges(pages) ==
    IF Len(pages) = 0 THEN <<>> ELSE RunsFrom(pages, 2, pages[1], pages[1])

\* the ranges updateSplitPreview builds in the all-pages method
EveryPage(count) == [i \in 1..count |-> [start |-> i, end |-> i]]

\* SplitTool.updateSplitPreview and showSplitPreview: the ranges of the preview
\* element afterwards, given the ones shown before
updateSplitPreview(file, thumbnails, count, method, text, dividers, checkedBoxes, shown) ==
    IF file = 0 \/ thumbnails = 0 THEN shown
    ELSE IF method = "all" THEN EveryPage(count)
    ELSE IF method = "ranges"
    THEN IF Trim(text) = <<>> THEN <<>>
         ELSE LET validated == validateAndParseRanges(text, count)
              IN IF validated.ok THEN validated.ranges ELSE <<>>
    ELSE IF dividers # {} THEN getDividerRanges(dividers, count)
    ELSE convertPagesToRanges(getVisuallySelectedPages(checkedBoxes))

InitSplitTool == OthersIdle({})

\* handleFileSelected([file]) up to its first await
SelectFile(n) ==
    /\ loadPc = "idle"
    /\ loadPc' = "count"
    /\ pendingFile' = n
    /\ UNCHANGED <<currentFile, pageCount, currentThumbnails, splitDividers, splitMethod,
                   placeholders, visualShown, optionsShown, visualPending,
                   pageBoxes, checkedPages, pageRangesText, preview, exceptTool>>

\* getPageCount resolves (or rejects: the catch reports the error)
PageCountResolved ==
    /\ loadPc = "count"
    /\ \E counted \in BOOLEAN :
          IF counted
          THEN /\ pageCount' = pendingFile
               /\ currentFile' = pendingFile
               /\ loadPc' = "thumbs"
               /\ UNCHANGED pendingFile
          ELSE /\ loadPc' = "idle"
               /\ pendingFile' = 0
               /\ UNCHANGED <<pageCount, currentFile>>
    /\ UNCHANGED <<currentThumbnails, splitDividers, splitMethod, placeholders,
                   visualShown, optionsShown, visualPending,
                   pageBoxes, checkedPages, pageRangesText, preview, exceptTool>>

\* generateThumbnails resolves: showSplitOptions, updateSplitPreview
ThumbnailsResolved ==
    /\ loadPc = "thumbs"
    /\ currentThumbnails' = Min(pendingFile, InitialThumbnails)
    /\ optionsShown' = TRUE
    /\ loadPc' = "idle"
    /\ pendingFile' = 0
    /\ preview' = updateSplitPreview(currentFile, currentThumbnails', pageCount, splitMethod,
                                     pageRangesText, splitDividers, checkedPages, preview)
    /\ UNCHANGED <<currentFile, pageCount, splitDividers, splitMethod, placeholders,
                   visualShown, visualPending, pageBoxes, checkedPages, pageRangesText,
                   exceptTool>>

\* createCombinedInterface: a placeholder after each page but the last
DividerPlaceholders(n) == 1..(n - 1)

\* createCombinedInterface: a checkbox for each page, checked
PageCheckboxes(n) == 1..n

\* the change handlers of the ranges and the all-pages radio buttons
ChooseMethod(method) ==
    /\ method \in {"ranges", "all"}
    /\ splitMethod # method
    /\ optionsShown
    /\ splitMethod' = method
    /\ visualShown' = FALSE
    /\ preview' = updateSplitPreview(currentFile, currentThumbnails, pageCount, method,
                                     pageRangesText, splitDividers, checkedPages, preview)
    /\ UNCHANGED <<currentFile, pageCount, currentThumbnails, splitDividers, placeholders,
                   optionsShown, pendingFile, loadPc, visualPending,
                   pageBoxes, checkedPages, pageRangesText, exceptTool>>

\* the change handler of the visual radio button: showCombinedVisualSelection,
\* then updateSplitPreview unless the thumbnails are awaited
ChooseVisual ==
    /\ splitMethod # "visual"
    /\ optionsShown
    /\ visualPending = 0
    /\ splitMethod' = "visual"
    /\ visualShown' = TRUE
    /\ IF currentFile = 0
       THEN UNCHANGED <<currentThumbnails, splitDividers, placeholders, visualPending,
                        pageBoxes, checkedPages, preview>>
       ELSE IF currentThumbnails = 0 \/ currentThumbnails < pageCount
       THEN /\ placeholders' = {}
            /\ pageBoxes' = {}
            /\ checkedPages' = {}
            /\ visualPending' = pageCount
            /\ UNCHANGED <<currentThumbnails, splitDividers, preview>>
       ELSE /\ splitDividers' = {}
            /\ placeholders' = DividerPlaceholders(pageCount)
            /\ pageBoxes' = PageCheckboxes(pageCount)
            /\ checkedPages' = PageCheckboxes(pageCount)
            /\ preview' = updateSplitPreview(currentFile, currentThumbnails, pageCount,
                              "visual", pageRangesText, {}, PageCheckboxes(pageCount), preview)
            /\ UNCHANGED <<currentThumbnails, visualPending>>
    /\ UNCHANGED <<currentFile, pageCount, optionsShown, pendingFile, loadPc,
                   pageRangesText, exceptTool>>

\* the generateThumbnails awaited by showCombinedVisualSelection resolves
VisualThumbnailsResolved ==
    /\ visualPending # 0
    /\ visualPending' = 0
    /\ currentThumbnails' = visualPending
    /\ splitDividers' = {}
    /\ placeholders' = DividerPlaceholders(pageCount)
    /\ pageBoxes' = PageCheckboxes(pageCount)
    /\ checkedPages' = PageCheckboxes(pageCount)
    /\ preview' = updateSplitPreview(currentFile, visualPending, pageCount, splitMethod,
                                     pageRangesText, {}, PageCheckboxes(pageCount), preview)
    /\ UNCHANGED <<currentFile, pageCount, splitMethod, visualShown, optionsShown,
                   pendingFile, loadPc, pageRangesText, exceptTool>>

DividersClickable == optionsShown /\ visualShown

\* the divider set becomes D: the handlers end with updateSplitPreview
SetDividers(D) ==
    /\ splitDividers' = D
    /\ preview' = updateSplitPreview(currentFile, currentThumbnails, pageCount, splitMethod,
                                     pageRangesText, D, checkedPages, preview)
    /\ UNCHANGED <<currentFile, pageCount, currentThumbnails, splitMethod, placeholders,
                   visualShown, optionsShown, pendingFile, loadPc, visualPending,
                   pageBoxes, checkedPages, pageRangesText, exceptTool>>

\* a click on the placeholder after a page
toggleDivider(afterPage) ==
    /\ DividersClickable
    /\ afterPage \in placeholders
    /\ SetDividers(IF afterPage \in splitDividers
                   THEN splitDividers \ {afterPage}
                   ELSE splitDividers \cup {afterPage})

clearAllDividers ==
    /\ DividersClickable
    /\ SetDividers({})

addAllDividers ==
    /\ DividersClickable
    /\ SetDividers(splitDividers \cup {pageNum \in 1..MaxPages : pageNum < pageCount})

\* the checked boxes become B: the handlers end with updateSplitPreview
SetChecked(B) ==
    /\ checkedPages' = B
    /\ preview' = updateSplitPreview(currentFile, currentThumbnails, pageCount, splitMethod,
                                     pageRangesText, splitDividers, B, preview)
    /\ UNCHANGED <<currentFile, pageCount, currentThumbnails, splitDividers, splitMethod,
                   placeholders, visualShown, optionsShown, pendingFile, loadPc,
                   visualPending, pageBoxes, pageRangesText, exceptTool>>

\* a click on the thumbnail of a page or on its checkbox
togglePage(page) ==
    /\ DividersClickable
    /\ page \in pageBoxes
    /\ SetChecked(IF page \in checkedPages
                  THEN checkedPages \ {page}
                  ELSE checkedPages \cup {page})

selectAllPages ==
    /\ DividersClickable
    /\ SetChecked(pageBoxes)

selectNoPages ==
    /\ DividersClickable
    /\ SetChecked({})

\* the input handler of the page-ranges input
PageRangesInput(text) ==
    /\ optionsShown
    /\ splitMethod = "ranges"
    /\ text # pageRangesText
    /\ pageRangesText' = text
    /\ preview' = updateSplitPreview(currentFile, currentThumbnails, pageCount, splitMethod,
                                     text, splitDividers, checkedPages, preview)
    /\ UNCHANGED <<currentFile, pageCount, currentThumbnails, splitDividers, splitMethod,
                   placeholders, visualShown, optionsShown, pendingFile, loadPc,
                   visualPending, pageBoxes, checkedPages, exceptTool>>

\* SplitTool.handleClear
handleClear ==
    /\ optionsShown
    /\ currentFile' = 0
    /\ pageCount' = 0
    /\ currentThumbnails' = 0
    /\ splitDividers' = {}
    /\ preview' = <<>>
    /\ optionsShown' = FALSE
    /\ pageRangesText' = <<>>
    /\ splitMethod' = "ranges"
    /\ UNCHANGED <<placeholders, visualShown, pendingFile, loadPc, visualPending,
                   pageBoxes, checkedPages, exceptTool>>

NextSplitTool ==
    \/ \E n \in 1..MaxPages : SelectFile(n)
    \/ PageCountResolved
    \/ ThumbnailsResolved
    \/ \E method \in {"ranges", "all"} : ChooseMethod(method)
    \/ ChooseVisual
    \/ VisualThumbnailsResolved
    \/ \E afterPage \in 1..MaxPages : toggleDivider(afterPage)
    \/ clearAllDividers
    \/ addAllDividers
    \/ \E page \in 1..MaxPages : togglePage(page)
    \/ selectAllPages
    \/ selectNoPages
    \/ \E text \in ToolTexts : PageRangesInput(text)
    \/ handleClear

SpecSplitTool == InitSplitTool /\ [][NextSplitTool]_vars

(***************************************************************************)
(* WordConvertTool.handleConvertRequest over WordToPDFConverter.           *)
(*                                                                         *)
(* A step runs from one await on the file or the libraries to the next:    *)
(* the continuation of a settled convertWordToPDF, the catch of a rejected *)
(* one and the next call all run in one turn of the event loop.  The four  *)
(* awaits inside convertWordToPDF are one step.  The list of files is an   *)
(* input: it is not edited while a batch runs.                             *)
(***************************************************************************)
WordFiles == {"x", "y", "z"}

WordLists == {l \in ListsUpTo(WordFiles, MaxFiles) :
                 \A i, j \in 1..Len(l) : i # j => l[i] # l[j]}

\* the inner catch of a batch that would give up at the first failing file
ConversionFailedAborts(bt, file) ==
    [bt EXCEPT !.outcomes = Append(@, [file |-> file, ok |-> FALSE]),
               !.i = Len(selectedFiles)]

\* the inner catch: the failure is reported, the loop goes on
ConversionFailed(bt, file) ==
    [bt EXCEPT !.outcomes = Append(@, [file |-> file, ok |-> FALSE]),
               !.i = @ + 1]

\* results.push
ConversionDone(bt, file) ==
    [bt EXCEPT !.outcomes = Append(@, [file |-> file, ok |-> TRUE]),
               !.results = Append(@, file),
               !.i = @ + 1]

\* the for loop from index bt.i (0-based) up to the next conversion that is
\* accepted, or to its end; a call made while the converter is busy throws
RECURSIVE RunLoop(_, _)
RunLoop(bt, busy) ==
    IF bt.i >= Len(selectedFiles)
    THEN [bt EXCEPT !.pc = IF Len(bt.results) > 0 THEN "done" ELSE "failed"]
    ELSE IF busy
    THEN RunLoop(ConversionFailed(bt, selectedFiles[bt.i + 1]), busy)
    ELSE [bt EXCEPT !.pc = "converting"]

InitConvert ==
    /\ selectedFiles \in WordLists
    /\ convBusy = FALSE
    /\ batches = [b \in Batches |-> IdleBatch]
    /\ OthersIdle({"conv"})

\* a click on the convert button, were the 'already in progress' throw inside
\* the try of convertWordToPDF: its finally would clear the flag
handleConvertRequestClearsFlag(b) ==
    /\ batches[b].pc = "idle"
    /\ IF Len(selectedFiles) = 0
       THEN /\ batches' = [batches EXCEPT ![b].pc = "nofiles"]
            /\ UNCHANGED convBusy
       ELSE LET after == RunLoop(IdleBatch, convBusy)
            IN /\ batches' = [batches EXCEPT ![b] = after]
               /\ convBusy' = (after.pc = "converting")
    /\ UNCHANGED <<selectedFiles, exceptConv>>

\* a click on the convert button
handleConvertRequest(b) ==
    /\ batches[b].pc = "idle"
    /\ IF Len(selectedFiles) = 0
       THEN /\ batches' = [batches EXCEPT ![b].pc = "nofiles"]
            /\ UNCHANGED convBusy
       ELSE LET after == RunLoop(IdleBatch, convBusy)
            IN /\ batches' = [batches EXCEPT ![b] = after]
               /\ convBusy' = (convBusy \/ after.pc = "converting")
    /\ UNCHANGED <<selectedFiles, exceptConv>>

\* the convertWordToPDF awaited by a batch resolves or rejects; finally
\* clears the flag and the loop goes on
ConversionSettles(b) ==
    /\ batches[b].pc = "converting"
    /\ \E converts \in BOOLEAN :
          LET file  == selectedFiles[batches[b].i + 1]
              after == RunLoop(IF converts THEN ConversionDone(batches[b], file)
                               ELSE ConversionFailed(batches[b], file), FALSE)
          IN /\ batches' = [batches EXCEPT ![b] = after]
             /\ convBusy' = (after.pc = "converting")
    /\ UNCHANGED <<selectedFiles, exceptConv>>

\* handleConvertRequest has returned: the slot is free again
BatchSettled(b) ==
    /\ batches[b].pc \in {"done", "failed", "nofiles"}
    /\ batches' = [batches EXCEPT ![b] = IdleBatch]
    /\ UNCHANGED <<selectedFiles, convBusy, exceptConv>>

NextConvert ==
    \/ \E b \in Batches : handleConvertRequest(b)
    \/ \E b \in Batches : ConversionSettles(b)
    \/ \E b \in Batches : BatchSettled(b)

SpecConvert == InitConvert /\ [][NextConvert]_vars

(***************************************************************************)
(* WordToPDFConverter.wrapText applied to every text.                      *)
(***************************************************************************)
\* the characters of a paragraph
WrapChars == {"a", "b", " "}

\* getFontSize: heading, list, paragraph
FontSizes == {14, 11, 12}

WrapWidths == {9 * k : k \in 1..MaxLineChars}

\* Math.floor(maxWidth / (fontSize * 0.6))
MaxCharsPerLine(maxWidth, fontSize) == (10 * maxWidth) \div (6 * fontSize)

\* String.prototype.substring(from) and substring(0, to)
SubstringFrom(s, from) == SubSeq(s, Min(from, Len(s)) + 1, Len(s))
SubstringTo(s, to) == SubSeq(s, 1, Min(to, Len(s)))

\* the body of the for loop over the words: the lines pushed so far and
\* currentLine, after the words from index i on
RECURSIVE WrapWords(_, _, _, _, _)
WrapWords(words, maxChars, i, lines, currentLine) ==
    IF i > Len(words) THEN [lines |-> lines, currentLine |-> currentLine]
    ELSE LET word     == words[i]
             testLine == IF currentLine # <<>> THEN currentLine \o <<" ">> \o word ELSE word
         IN IF Len(testLine) <= maxChars
            THEN WrapWords(words, maxChars, i + 1, lines, testLine)
            ELSE IF currentLine # <<>>
            THEN WrapWords(words, maxChars, i + 1, Append(lines, currentLine), word)
            ELSE WrapWords(words, maxChars, i + 1,
                           Append(lines, SubstringTo(word, maxChars)),
                           SubstringFrom(word, maxChars))

wrapText(text, maxWidth, fontSize) ==
    LET maxCharsPerLine == MaxCharsPerLine(maxWidth, fontSize)
        after == WrapWords(Split(text, " "), maxCharsPerLine, 1, <<>>, <<>>)
    IN IF after.currentLine # <<>> THEN Append(after.lines, after.currentLine)
       ELSE after.lines

InitWrap ==
    /\ wrapInput \in TextsUpTo(WrapChars, MaxWrapLen)
    /\ wrapWidth \in WrapWidths
    /\ wrapFontSize \in FontSizes
    /\ wrapped = NotWrapped
    /\ OthersIdle({"wrap"})

Wrap ==
    /\ ~wrapped.done
    /\ wrapped' = [done |-> TRUE, lines |-> wrapText(wrapInput, wrapWidth, wrapFontSize)]
    /\ UNCHANGED <<wrapInput, wrapWidth, wrapFontSize, exceptWrap>>

NextWrap == Wrap

SpecWrap == InitWrap /\ [][NextWrap]_vars

(***************************************************************************)
(* PDFSplitter: splitPDF and splitIntoIndividualPages, step by step.       *)
(*                                                                         *)
(* The read and the load of the file are one step; createPDFDocument,      *)
(* copyPages and save of one output file are one step.                     *)
(***************************************************************************)
\* the files handed to the splitter: a name and a page count
SplitDocs == {[base |-> "doc", ext |-> ".pdf", pages |-> n] : n \in 1..MaxPages}
                 \cup {[base |-> "scan", ext |-> ".PDF", pages |-> MaxPages]}

\* the tokens of a range text for a document of n pages: a page, also one
\* past the last, or a range, also a reversed one
PageTokens(n) ==
    {NumToStr(p) : p \in 1..(n + 1)}
        \cup {NumToStr(a) \o <<"-">> \o NumToStr(b) : a, b \in 1..n}

\* the range texts handed to splitPDF: none, one or two tokens
SplitTexts ==
    LET T == PageTokens(MaxPages)
    IN {<<>>} \cup T \cup {t1 \o <<",">> \o t2 : t1, t2 \in T}
           \cup {t1 \o <<",", " ">> \o t2 : t1, t2 \in T}

\* originalName.replace(/\.pdf$/i, '')
BaseName(doc) == IF doc.ext \in {".pdf", ".PDF"} THEN doc.base ELSE doc.base \o doc.ext

generateSplitFilename(doc, range) ==
    IF range.start = range.end
    THEN BaseName(doc) \o "_page_" \o ToString(range.start) \o ".pdf"
    ELSE BaseName(doc) \o "_pages_" \o ToString(range.start) \o "-" \o ToString(range.end) \o ".pdf"

\* a page file name that would count the pages from 0
generatePageFilenameFromZero(doc, pageNum) ==
    BaseName(doc) \o "_page_" \o ToString(pageNum - 1) \o ".pdf"

generatePageFilename(doc, pageNum) ==
    BaseName(doc) \o "_page_" \o ToString(pageNum) \o ".pdf"

\* page indices that would not be made 0-based
RangeIndicesOneBased(range) ==
    [k \in 1..(range.end - range.start + 1) |-> range.start + k - 1]

\* for (pageNum = range.start; pageNum <= range.end; pageNum++) pageIndices.push(pageNum - 1)
RangeIndices(range) ==
    [k \in 1..(range.end - range.start + 1) |-> (range.start + k - 1) - 1]

\* the result object of one range of splitPDF
RangeJob(doc, range) ==
    [filename |-> generateSplitFilename(doc, range),
     copied   |-> RangeIndices(range),
     pages    |-> ToString(range.start) \o "-" \o ToString(range.end)]

\* the result object of one page of splitIntoIndividualPages
PageJob(doc, pageNum) ==
    [filename |-> generatePageFilename(doc, pageNum),
     copied   |-> <<pageNum - 1>>,
     pages    |-> ToString(pageNum)]

\* splitPDF or splitIntoIndividualPages is called: the code up to its first await
SplitCall(op, mode, doc, text) ==
    /\ splits[op].pc = "idle"
    /\ IF splitterBusy
       THEN /\ splits' = [splits EXCEPT ![op] =
                   [IdleSplit EXCEPT !.pc = "rejected", !.mode = mode, !.doc = doc,
                       !.text = text, !.error = "PDF splitting is already in progress"]]
            /\ UNCHANGED splitterBusy
       ELSE /\ splits' = [splits EXCEPT ![op] =
                   [IdleSplit EXCEPT !.pc = "load", !.mode = mode, !.doc = doc, !.text = text]]
            /\ splitterBusy' = TRUE
    /\ UNCHANGED exceptSplitter

\* a step that would clear the flag only when the split succeeds
SplitStepNoFinally(op, after) ==
    /\ splits' = [splits EXCEPT ![op] = after]
    /\ splitterBusy' = IF after.pc = "done" THEN FALSE ELSE splitterBusy
    /\ UNCHANGED exceptSplitter

\* a step of an invocation: finally clears the flag when the step ends it
SplitStep(op, after) ==
    /\ splits' = [splits EXCEPT ![op] = after]
    /\ splitterBusy' = IF after.pc \in {"done", "failed"} THEN FALSE ELSE splitterBusy
    /\ UNCHANGED exceptSplitter

SplitFailed(sp, msg) == [sp EXCEPT !.pc = "failed", !.error = "PDF split failed: " \o msg]

\* the pages of splitIntoIndividualPages, one output file each
AllPages(doc) == [pageNum \in 1..doc.pages |-> [start |-> pageNum, end |-> pageNum]]

\* PDFSplitter.splitPDFByPageNumbers once the file is loaded: the selected
\* pages are compacted to their maximal runs of consecutive pages, one output
\* file each; a page outside the document fails the split
splitPDFByPageNumbers(sp) ==
    IF Len(sp.pages) = 0 THEN SplitFailed(sp, "EmptySelection")
    ELSE IF \E k \in 1..Len(sp.pages) : sp.pages[k] < 1 \/ sp.pages[k] > sp.doc.pages
    THEN SplitFailed(sp, "OutOfBounds")
    ELSE [sp EXCEPT !.ranges = convertPagesToRanges(sp.pages), !.i = 1, !.pc = "job"]

\* the invocation once the file is loaded: splitPDF validates the ranges
\* against the page count
AfterSplitLoad(sp) ==
    IF sp.mode = "pages" THEN splitPDFByPageNumbers(sp)
    ELSE IF sp.mode = "all"
    THEN [sp EXCEPT !.ranges = AllPages(sp.doc), !.i = 1, !.pc = "job"]
    ELSE LET validated == validateAndParseRanges(sp.text, sp.doc.pages)
         IN IF validated.ok
            THEN [sp EXCEPT !.ranges = validated.ranges, !.i = 1, !.pc = "job"]
            ELSE SplitFailed(sp, validated.error)

\* fileToArrayBuffer and loadPDFFromBytes resolve, or one rejects
SplitLoaded(op) ==
    /\ splits[op].pc = "load"
    /\ \E loads \in BOOLEAN :
          SplitStep(op, IF loads THEN AfterSplitLoad(splits[op])
                        ELSE SplitFailed(splits[op], "Failed to read file"))

\* createPDFDocument, copyPages and save of output file i resolve, or one rejects
SplitJob(op) ==
    /\ splits[op].pc = "job"
    /\ \E saves \in BOOLEAN :
          LET sp  == splits[op]
              job == IF sp.mode = "all" THEN PageJob(sp.doc, sp.ranges[sp.i].start)
                     ELSE RangeJob(sp.doc, sp.ranges[sp.i])
          IN SplitStep(op,
                 IF ~saves THEN SplitFailed(sp, "save")
                 ELSE [sp EXCEPT !.results = Append(@, job), !.i = @ + 1,
                          !.pc = IF sp.i + 1 > Len(sp.ranges) THEN "done" ELSE "job"])

\* the caller has taken the settled promise: the slot is free again
SplitSettled(op) ==
    /\ splits[op].pc \in {"done", "failed", "rejected"}
    /\ splits' = [splits EXCEPT ![op] = IdleSplit]
    /\ UNCHANGED <<splitterBusy, exceptSplitter>>

(***************************************************************************)
(* One split at a time, over every file and every range text.              *)
(***************************************************************************)
InitSplit == OthersIdle({})

CallAnySplit ==
    \/ \E doc \in SplitDocs, text \in SplitTexts : SplitCall(1, "ranges", doc, text)
    \/ \E doc \in SplitDocs : SplitCall(1, "all", doc, <<>>)

NextSplit ==
    \/ CallAnySplit
    \/ SplitLoaded(1)
    \/ SplitJob(1)
    \/ SplitSettled(1)

SpecSplit == InitSplit /\ [][NextSplit]_vars

(***************************************************************************)
(* SplitTool.handleSplitRequest: the split of the selected file by the     *)
(* checked method, one request at a time.  The splitter does not read the  *)
(* tool's state after the call, so the steps of the tool and of a running  *)
(* split are not interleaved.                                              *)
(***************************************************************************)
\* the file of the tool as the splitter reads it
ToolDoc(n) == [base |-> "doc", ext |-> ".pdf", pages |-> n]

\* r.start === r.end ? r.start : `${r.start}-${r.end}`
RangeToText(r) ==
    IF r.start = r.end THEN NumToStr(r.start)
    ELSE NumToStr(r.start) \o <<"-">> \o NumToStr(r.end)

\* the range string handleSplitRequest builds from the divider ranges
DividerRangeString(dividers, count) ==
    LET ranges == getDividerRanges(dividers, count)
    IN Join([k \in 1..Len(ranges) |-> RangeToText(ranges[k])])

\* an error handleSplitRequest throws itself: its catch reports it
SplitThrown(op, mode, doc, msg) ==
    /\ splits[op].pc = "idle"
    /\ splits' = [splits EXCEPT ![op] =
            [IdleSplit EXCEPT !.pc = "failed", !.mode = mode, !.doc = doc, !.error = msg]]
    /\ UNCHANGED <<splitterBusy, exceptSplitter>>

\* splitPDFByPageNumbers is called: up to its first await
SplitPagesCall(op, doc, selectedPages) ==
    /\ splits[op].pc = "idle"
    /\ IF splitterBusy
       THEN /\ splits' = [splits EXCEPT ![op] =
                   [IdleSplit EXCEPT !.pc = "rejected", !.mode = "pages", !.doc = doc,
                       !.pages = selectedPages,
                       !.error = "PDF splitting is already in progress"]]
            /\ UNCHANGED splitterBusy
       ELSE /\ splits' = [splits EXCEPT ![op] =
                   [IdleSplit EXCEPT !.pc = "load", !.mode = "pages", !.doc = doc,
                       !.pages = selectedPages]]
            /\ splitterBusy' = TRUE
    /\ UNCHANGED exceptSplitter

\* the split-with-dividers branch would come second
VisualSplitBoxesFirst(op, doc) ==
    IF checkedPages # {}
    THEN SplitPagesCall(op, doc, getVisuallySelectedPages(checkedPages))
    ELSE IF splitDividers # {}
    THEN SplitCall(op, "ranges", doc, DividerRangeString(splitDividers, pageCount))
    ELSE SplitThrown(op, "pages", doc, "Please select at least one page to split")

\* the visual branch of handleSplitRequest: dividers, else checkboxes
VisualSplit(op, doc) ==
    IF splitDividers # {}
    THEN SplitCall(op, "ranges", doc, DividerRangeString(splitDividers, pageCount))
    ELSE IF Len(getVisuallySelectedPages(checkedPages)) = 0
    THEN SplitThrown(op, "pages", doc, "Please select at least one page to split")
    ELSE SplitPagesCall(op, doc, getVisuallySelectedPages(checkedPages))

handleSplitRequest(op) ==
    /\ currentFile # 0
    /\ IF splitMethod = "all" THEN SplitCall(op, "all", ToolDoc(currentFile), <<>>)
       ELSE IF splitMethod = "visual" THEN VisualSplit(op, ToolDoc(currentFile))
       ELSE IF Trim(pageRangesText) = <<>>
       THEN SplitThrown(op, "ranges", ToolDoc(currentFile), "Please enter page ranges")
       ELSE SplitCall(op, "ranges", ToolDoc(currentFile), pageRangesText)

InitToolSplit == OthersIdle({})

\* the tool is left alone while a split runs
ToolUsed == splits[1].pc = "idle" /\ NextSplitTool

NextToolSplit ==
    \/ ToolUsed
    \/ handleSplitRequest(1)
    \/ SplitLoaded(1)
    \/ SplitJob(1)
    \/ SplitSettled(1)

SpecToolSplit == InitToolSplit /\ [][NextToolSplit]_vars

(***************************************************************************)
(* FileListManager.pagesToRangeText applied to the checked pages of a      *)
(* document, in the order of the checkboxes or in the reverse order.       *)
(***************************************************************************)
Reversed(q) == [k \in 1..Len(q) |-> q[Len(q) + 1 - k]]

\* the lists of distinct pages handed to pagesToRangeText
PageSelections ==
    LET sets == SUBSET (1..MaxFormatPage)
    IN {SortedSeq(S) : S \in sets} \cup {Reversed(SortedSeq(S)) : S \in sets}

InitFormat ==
    /\ formatInput \in PageSelections
    /\ formatted = NotFormatted
    /\ OthersIdle({"format"})

Format ==
    /\ ~formatted.done
    /\ formatted' = [done |-> TRUE, text |-> pagesToRangeText(formatInput)]
    /\ UNCHANGED <<formatInput, exceptFormat>>

NextFormat == Format

SpecFormat == InitFormat /\ [][NextFormat]_vars

(***************************************************************************)
(* WordToPDFConverter.addTextToPDF: the pages of the converted document.   *)
(*                                                                         *)
(* A page is the sequence of the texts drawn on it.  The blocks of a       *)
(* document are alike: one text and one style, repeated.                   *)
(***************************************************************************)
pageWidth == 612
pageHeight == 792
margin == 50
maxWidth == pageWidth - (margin * 2)

\* getFontSize(style)
getFontSize(style) == CASE style = "heading" -> 14
                        [] style = "list"    -> 11
                        [] OTHER             -> 12

BlockStyles == {"heading", "list", "normal"}

\* the trimmed, non-empty texts of the elements
BlockTexts == {<<"a">>, <<"a", " ", "b">>}

WordNames == {[base |-> "x", ext |-> e] : e \in {".docx", ".DOC", ".txt"}}

\* fileName.replace(/\.(docx?)$/i, '')
TitleOf(name) ==
    IF name.ext \in {".docx", ".DOCX", ".doc", ".DOC"} THEN name.base ELSE name.base \o name.ext

\* the page drawn when there is no text block
NoticePage == <<[kind |-> "notice", line |-> <<>>, y |-> 750, size |-> 12]>>

\* currentPage.drawText on the last page
DrawOnLast(pages, drawn) == [pages EXCEPT ![Len(pages)] = Append(@, drawn)]

\* the loop over the lines of one block, from line j: a new page when the
\* line does not fit above the margin, then the line is drawn
RECURSIVE DrawLines(_, _, _, _, _)
DrawLines(lines, j, fontSize, pages, yPosition) ==
    IF j > Len(lines) THEN [pages |-> pages, y |-> yPosition]
    ELSE IF yPosition < margin + (fontSize + 4)
    THEN DrawLines(lines, j, fontSize, Append(pages, <<>>), pageHeight - margin)
    ELSE DrawLines(lines, j + 1, fontSize,
                   DrawOnLast(pages, [kind |-> "line", line |-> lines[j], y |-> yPosition,
                                      size |-> fontSize]),
                   yPosition - (fontSize + 4))

\* the loop over the blocks, from block i
RECURSIVE DrawBlocks(_, _, _, _)
DrawBlocks(blocks, i, pages, yPosition) ==
    IF i > Len(blocks) THEN pages
    ELSE LET fontSize == getFontSize(blocks[i].style)
             lines    == wrapText(blocks[i].text, maxWidth, fontSize)
             after    == DrawLines(lines, 1, fontSize, pages, yPosition)
         IN IF Len(after.pages) < Len(pages) THEN pages   \* drawing removes no page
            ELSE DrawBlocks(blocks, i + 1, after.pages, after.y - 5)

\* a layout that would add no page when there is no text block
addTextToPDFNoFallback(blocks, name) ==
    IF Len(blocks) = 0 THEN <<>>
    ELSE DrawBlocks(blocks, 1,
                    <<<<[kind |-> "title", line |-> <<>>, y |-> pageHeight - margin,
                         size |-> 16]>>>>,
                    pageHeight - margin - 40)

\* the pages pdfDoc holds after addTextToPDF(pdfDoc, textContent, fileName)
addTextToPDF(blocks, name) ==
    IF Len(blocks) = 0 THEN <<NoticePage>>
    ELSE DrawBlocks(blocks, 1,
                    <<<<[kind |-> "title", line |-> <<>>, y |-> pageHeight - margin,
                         size |-> 16]>>>>,
                    pageHeight - margin - 40)

InitLayout ==
    /\ \E n \in 0..MaxBlocks, text \in BlockTexts, style \in BlockStyles :
          textContent = [i \in 1..n |-> [text |-> text, style |-> style]]
    /\ fileName \in WordNames
    /\ layoutPc = "idle"
    /\ pdfPages = <<>>
    /\ OthersIdle({"layout"})

\* loadRgb resolves and the pages are added
Layout ==
    /\ layoutPc = "idle"
    /\ layoutPc' = "done"
    /\ pdfPages' = addTextToPDF(textContent, fileName)
    /\ UNCHANGED <<textContent, fileName, exceptLayout>>

\* loadRgb rejects: addTextToPDF throws before any page is added
LayoutFailed ==
    /\ layoutPc = "idle"
    /\ layoutPc' = "failed"
    /\ UNCHANGED <<textContent, fileName, pdfPages, exceptLayout>>

NextLayout == Layout \/ LayoutFailed

SpecLayout == InitLayout /\ [][NextLayout]_vars

(***************************************************************************)
(* PDFPreview.generateThumbnails and its cache.                            *)
(*                                                                         *)
(* The cache key is the name, the size and the modification time of the    *)
(* file: one key per file.  A thumbnail is known by its page number.       *)
(***************************************************************************)
\* the maxPages of the callers: handleFileSelected, showCombinedVisualSelection
\* and addFiles
MaxPagesAsked(file) == {Min(file, InitialThumbnails), file, 5}

\* the result built after the page count is known
ThumbnailsOf(count, limit) ==
    [thumbnails |-> [pageNum \in 1..Min(count, limit) |-> pageNum],
     totalPages |-> count,
     hasMore    |-> count > limit,
     error      |-> "none"]

InitPreview == OthersIdle({})

\* generateThumbnails(file, maxPages) up to its first await: a cached result
\* is returned as it is
GenerateCalled(file, maxPages) ==
    /\ thumbnailCall.pc \in {"idle", "returned"}
    /\ thumbnailCall' =
          IF thumbnailCache[file] # NoThumbnails
          THEN [pc |-> "returned", file |-> file, maxPages |-> maxPages,
                result |-> thumbnailCache[file]]
          ELSE [pc |-> "reading", file |-> file, maxPages |-> maxPages,
                result |-> NoThumbnails]
    /\ UNCHANGED <<thumbnailCache, exceptPreview>>

\* the file is read and loaded: the result is cached and returned; or one of
\* them fails and the catch returns an empty result that is not cached
ThumbnailsGenerated ==
    /\ thumbnailCall.pc = "reading"
    /\ \E loads \in BOOLEAN :
          IF loads
          THEN LET result == ThumbnailsOf(thumbnailCall.file, thumbnailCall.maxPages)
               IN /\ thumbnailCache' = [thumbnailCache EXCEPT ![thumbnailCall.file] = result]
                  /\ thumbnailCall' = [thumbnailCall EXCEPT !.pc = "returned",
                                                            !.result = result]
          ELSE /\ thumbnailCall' = [thumbnailCall EXCEPT !.pc = "returned",
                        !.result = [NoThumbnails EXCEPT !.error = "Invalid PDF file"]]
               /\ UNCHANGED thumbnailCache
    /\ UNCHANGED exceptPreview

\* clearCache()
clearCache ==
    /\ thumbnailCall.pc \in {"idle", "returned"}
    /\ thumbnailCache' = [file \in PreviewDocs |-> NoThumbnails]
    /\ UNCHANGED <<thumbnailCall, exceptPreview>>

NextPreview ==
    \/ \E file \in PreviewDocs : \E maxPages \in MaxPagesAsked(file) :
          GenerateCalled(file, maxPages)
    \/ ThumbnailsGenerated
    \/ clearCache

SpecPreview == InitPreview /\ [][NextPreview]_vars

(***************************************************************************)
(* AppController: the merge request, the shared sections and the download  *)
(* URL.                                                                    *)
(*                                                                         *)
(* A step runs from one await to the next.  When mergePDFs settles, its    *)
(* caller goes on in the same turn of the event loop, so no handler of the *)
(* user runs between the two (Stable).  uiController.currentDownloadUrl is *)
(* never set by the merge tool (showSuccess has no caller), so             *)
(* cleanupDownloadUrl does nothing.  The files are added before the first  *)
(* step; addFiles and clear have their own specification below.            *)
(***************************************************************************)
\* file.size in bytes; every size is even, so that 2.5 times a sum is whole
SizeOf(f) == CASE f = "A" -> 2
               [] f = "B" -> 41943040
               [] OTHER   -> 1048576

\* files.reduce((sum, file) => sum + file.size, 0)
RECURSIVE TotalSize(_)
TotalSize(files) ==
    IF files = <<>> THEN 0 ELSE SizeOf(Head(files)) + TotalSize(Tail(files))

\* totalSize * 2.5
estimateMemoryUsage(files) == (TotalSize(files) * 25) \div 10

\* 100MB
maxRecommended == 100 * 1024 * 1024

checkMemoryLimits(files) ==
    [estimatedMemory |-> estimateMemoryUsage(files),
     isWithinLimits  |-> estimateMemoryUsage(files) <= maxRecommended]

\* the lists the file list holds when the merge is requested
AppLists == {<<"A">>, <<"B">>, <<"A", "B">>, <<"A", "C">>}

\* what getSelectedPages returns for the list
AppModes(files) ==
    {SimpleMode} \cup
    {[advanced |-> TRUE,
      pages |-> [f \in (IF files = <<>> THEN {} ELSE {files[1]}) |-> <<1>>]]}

showFileList(s) == [fileList |-> TRUE, progress |-> FALSE, result |-> FALSE, error |-> FALSE]
hideFileList(s) == [s EXCEPT !.fileList = FALSE]
showProgress(s) == [s EXCEPT !.fileList = FALSE, !.result = FALSE, !.error = FALSE,
                             !.progress = TRUE]
showError(s) == [s EXCEPT !.progress = FALSE, !.result = FALSE, !.error = TRUE]
\* showMergeSuccess: the last line displays the result section
showMergeSuccess(s) == [s EXCEPT !.result = TRUE]
\* ToolManager.clearSharedSections
clearSharedSections(s) == [s EXCEPT !.progress = FALSE, !.result = FALSE, !.error = FALSE]

exceptAppMerge == <<parseVars, selVars, toolVars, convVars, wrapVars, splitterVars, formatVars, layoutVars, previewVars>>

\* the variables of the file list
fileListVars == <<listFiles, thumbnailsData, adds>>

\* the variables of a request for a merge
requestVars == <<stateIsProcessing, requestPc, requestFiles, validationResults>>

\* the variables of the download
downloadVars == <<lastResult, downloadBtn, revokedUrls, urlsCreated>>

\* the promise of mergePDFs is settled and its caller has not yet gone on, or
\* validateMultiplePDFs has resolved and mergePDFs is about to be called
Stable == ~(requestPc = "merge" /\ merges[1].pc \in {"idle", "done", "failed", "rejected"})

\* the merge tool holds the files, no merge was requested yet
AppStarts(tool, files) ==
    /\ currentTool = tool
    /\ stateFiles = files
    /\ listFiles = files
    /\ thumbnailsData = SeqRange(files)
    /\ adds = IdleAdd
    /\ sections = IF files = <<>> THEN NoSections ELSE showFileList(NoSections)
    /\ mergeBtnEnabled = (files # <<>>)
    /\ stateIsProcessing = FALSE
    /\ requestPc = "idle"
    /\ requestFiles = <<>>
    /\ validationResults = <<>>
    /\ proceed = "none"
    /\ confirmsShown = 0
    /\ lastResult = 0
    /\ downloadBtn = 0
    /\ revokedUrls = {}
    /\ urlsCreated = 0

InitApp ==
    /\ \E files \in AppLists : AppStarts("merge", files)
    /\ OthersIdle({"app"})

\* a request that would go on when the user declines
handleMergeRequestDeclineIgnored ==
    /\ ~stateIsProcessing
    /\ Len(stateFiles) > 0
    /\ urlsCreated < MaxUrls
    /\ LET memoryCheck == checkMemoryLimits(stateFiles)
       IN /\ ~memoryCheck.isWithinLimits => confirmsShown < MaxConfirms
          /\ \E answer \in BOOLEAN :
                /\ proceed' = IF memoryCheck.isWithinLimits THEN "none"
                              ELSE IF answer THEN "yes" ELSE "no"
                /\ confirmsShown' = IF memoryCheck.isWithinLimits THEN confirmsShown
                                    ELSE confirmsShown + 1
                /\ stateIsProcessing' = TRUE
                /\ requestPc' = "validating"
                /\ requestFiles' = stateFiles
                /\ validationResults' = <<>>
                /\ sections' = showProgress(sections)
                /\ UNCHANGED <<stateFiles, mergeBtnEnabled>>
    /\ UNCHANGED <<downloadVars, currentTool, fileListVars, mergeVars, exceptAppMerge>>

\* handleMergeRequest up to its first await: the two early returns change
\* nothing, a declined confirm() sets isProcessing back and returns
handleMergeRequest ==
    /\ ~stateIsProcessing
    /\ Len(stateFiles) > 0
    /\ urlsCreated < MaxUrls
    /\ LET memoryCheck == checkMemoryLimits(stateFiles)
       IN /\ ~memoryCheck.isWithinLimits => confirmsShown < MaxConfirms
          /\ \E answer \in BOOLEAN :
                /\ proceed' = IF memoryCheck.isWithinLimits THEN "none"
                              ELSE IF answer THEN "yes" ELSE "no"
                /\ confirmsShown' = IF memoryCheck.isWithinLimits THEN confirmsShown
                                    ELSE confirmsShown + 1
                /\ IF ~memoryCheck.isWithinLimits /\ ~answer
                   THEN UNCHANGED <<requestVars, sections>>
                   ELSE /\ stateIsProcessing' = TRUE
                        /\ requestPc' = "validating"
                        /\ requestFiles' = stateFiles
                        /\ validationResults' = <<>>
                        /\ sections' = showProgress(sections)
                /\ UNCHANGED <<stateFiles, mergeBtnEnabled>>
    /\ UNCHANGED <<downloadVars, currentTool, fileListVars, mergeVars, exceptAppMerge>>

\* a click on the merge button
MergeClick == Stable /\ mergeBtnEnabled /\ handleMergeRequest

\* the catch and the finally of handleMergeRequest
RequestFailed ==
    /\ sections' = showError(sections)
    /\ stateIsProcessing' = FALSE
    /\ requestPc' = "idle"
    /\ requestFiles' = <<>>
    /\ validationResults' = <<>>

\* validatePDF of the next file resolves; after the last one an invalid file
\* throws, otherwise mergePDFs is called next
ValidationResolved ==
    /\ requestPc = "validating"
    /\ \E isValid \in BOOLEAN :
          LET results == Append(validationResults,
                                [file |-> requestFiles[Len(validationResults) + 1],
                                 isValid |-> isValid])
          IN IF Len(results) < Len(requestFiles)
             THEN /\ validationResults' = results
                  /\ UNCHANGED <<stateIsProcessing, requestPc, requestFiles, sections>>
             ELSE IF \E k \in 1..Len(results) : ~results[k].isValid
             THEN RequestFailed
             ELSE /\ validationResults' = results
                  /\ requestPc' = "merge"
                  /\ UNCHANGED <<stateIsProcessing, requestFiles, sections>>
    /\ UNCHANGED <<stateFiles, proceed, confirmsShown, mergeBtnEnabled, downloadVars,
                   currentTool, fileListVars, mergeVars, exceptAppMerge>>

\* getSelectedPages and the call of mergePDFs(this.state.files, selectedPages)
RequestCallsMerge ==
    /\ requestPc = "merge"
    /\ \E sel \in AppModes(stateFiles) : MergeCall(1, stateFiles, sel)

\* mergePDFs has settled: the download, showMergeSuccess, or the catch; finally
MergeReturned ==
    /\ requestPc = "merge"
    /\ merges[1].pc \in {"done", "failed", "rejected"}
    /\ merges' = [merges EXCEPT ![1] = IdleMerge]
    /\ IF merges[1].pc = "done"
       THEN /\ urlsCreated' = urlsCreated + 1
            /\ lastResult' = urlsCreated + 1
            /\ downloadBtn' = urlsCreated + 1
            /\ sections' = showMergeSuccess(sections)
            /\ stateIsProcessing' = FALSE
            /\ requestPc' = "idle"
            /\ requestFiles' = <<>>
            /\ validationResults' = <<>>
            /\ UNCHANGED revokedUrls
       ELSE /\ RequestFailed
            /\ UNCHANGED downloadVars
    /\ UNCHANGED <<stateFiles, proceed, confirmsShown, mergeBtnEnabled, currentTool,
                   fileListVars, procBusy, exceptAppMerge>>

\* cleanup(): the URL of the last result is revoked, a merge in progress is
\* cancelled
cleanup ==
    /\ lastResult' = 0
    /\ revokedUrls' = IF lastResult # 0 THEN revokedUrls \cup {lastResult} ELSE revokedUrls
    /\ procBusy' = IF stateIsProcessing THEN FALSE ELSE procBusy
    /\ UNCHANGED <<urlsCreated, merges>>

\* visibilitychange with document.hidden, or beforeunload
PageHidden ==
    /\ Stable
    /\ cleanup
    /\ UNCHANGED <<stateFiles, requestVars, proceed, confirmsShown, sections, mergeBtnEnabled,
                   downloadBtn, currentTool, fileListVars, exceptAppMerge>>

AppTools == {"merge", "split"}

\* ToolManager.switchTool and handleToolChange: the shared sections and the
\* downloads are cleared, then cleanup and uiController.reset
switchTool(toolName) ==
    /\ Stable
    /\ toolName # currentTool
    /\ currentTool' = toolName
    /\ downloadBtn' = 0
    /\ cleanup
    /\ sections' = NoSections
    /\ mergeBtnEnabled' = FALSE
    /\ UNCHANGED <<stateFiles, requestVars, proceed, confirmsShown, fileListVars,
                   exceptAppMerge>>

\* FileListManager.clear and the rest of handleClearRequest
ClearList ==
    /\ listFiles' = <<>>
    /\ thumbnailsData' = {}
    /\ stateFiles' = <<>>
    /\ mergeBtnEnabled' = FALSE
    /\ UNCHANGED adds

\* the start-over button while the merge tool is the current tool
handleStartOver ==
    /\ Stable
    /\ currentTool = "merge"
    /\ ClearList
    /\ sections' = NoSections
    /\ cleanup
    /\ UNCHANGED <<requestVars, proceed, confirmsShown, downloadBtn, currentTool,
                   exceptAppMerge>>

\* the retry button of the error section
handleRetry ==
    /\ Stable
    /\ sections.error
    /\ IF Len(stateFiles) > 0
       THEN handleMergeRequest
       ELSE /\ sections' = NoSections
            /\ mergeBtnEnabled' = FALSE
            /\ UNCHANGED <<stateFiles, requestVars, proceed, confirmsShown, downloadVars,
                           currentTool, fileListVars, mergeVars, exceptAppMerge>>

NextApp ==
    \/ MergeClick
    \/ ValidationResolved
    \/ RequestCallsMerge
    \/ Passthrough(1)
    \/ LoadFile(1)
    \/ CopyPages(1)
    \/ SaveMerged(1)
    \/ MergeReturned
    \/ PageHidden
    \/ \E toolName \in AppTools : switchTool(toolName)
    \/ handleStartOver
    \/ handleRetry

SpecApp == InitApp /\ [][NextApp]_vars

(***************************************************************************)
(* FileListManager.addFiles and clear, with the handlers of the controller *)
(* that call them.  One addFiles is pending at a time.                     *)
(***************************************************************************)
\* the files of one selection: File objects that are in no list yet
AddLists == {l \in ListsUpTo(MergeFiles, MaxAdded) :
                Len(l) > 0 /\ \A i, j \in 1..Len(l) : i # j => l[i] # l[j]}

InitFileList == AppStarts("merge", <<>>) /\ OthersIdle({"app"})

\* handleFilesSelected(files): addFiles pushes the first file and awaits its
\* thumbnails
AddCalled(newFiles) ==
    /\ adds.pc = "idle"
    /\ \A k \in 1..Len(newFiles) :
          newFiles[k] \notin SeqRange(listFiles) \cup thumbnailsData
    /\ adds' = [pc |-> "thumbs", newFiles |-> newFiles, i |-> 1]
    /\ listFiles' = Append(listFiles, newFiles[1])
    /\ UNCHANGED <<thumbnailsData, stateFiles, requestVars, proceed, confirmsShown, sections,
                   mergeBtnEnabled, downloadVars, currentTool, exceptApp>>

\* generateThumbnails of file i resolves or rejects: an entry is set either
\* way and the next file is pushed; after the last file the order is
\* notified and handleFilesSelected shows the list
ThumbnailsSettled ==
    /\ adds.pc = "thumbs"
    /\ thumbnailsData' = thumbnailsData \cup {adds.newFiles[adds.i]}
    /\ IF adds.i < Len(adds.newFiles)
       THEN /\ listFiles' = Append(listFiles, adds.newFiles[adds.i + 1])
            /\ adds' = [adds EXCEPT !.i = @ + 1]
            /\ UNCHANGED <<stateFiles, sections, mergeBtnEnabled>>
       ELSE /\ adds' = IdleAdd
            /\ stateFiles' = listFiles
            /\ sections' = showFileList(sections)
            /\ mergeBtnEnabled' = (Len(listFiles) > 0)
            /\ UNCHANGED listFiles
    /\ UNCHANGED <<requestVars, proceed, confirmsShown, downloadVars, currentTool, exceptApp>>

\* the clear button
handleClearRequest ==
    /\ ClearList
    /\ sections' = hideFileList(sections)
    /\ UNCHANGED <<requestVars, proceed, confirmsShown, downloadVars, currentTool, exceptApp>>

NextFileList ==
    \/ \E newFiles \in AddLists : AddCalled(newFiles)
    \/ ThumbnailsSettled
    \/ handleClearRequest

SpecFileList == InitFileList /\ [][NextFileList]_vars

(***************************************************************************)
(* The busy flags of the three processors and of the controller.           *)
(*                                                                         *)
(* One tool is displayed at a time and the processors share no state: the  *)
(* tool is chosen at the start.  With the merge tool either the controller *)
(* is used, or, while it holds no file, mergePDFs and cancel are called    *)
(* directly, overlapping.                                                  *)
(***************************************************************************)
BusyTools == {"merge", "split", "word-convert"}

\* the document and the range texts of the overlapping splits
BusyTexts == {<<"1">>, <<"1", ",", "2">>, <<"9">>}

InitBusy ==
    /\ \E tool \in BusyTools :
          /\ \E files \in (IF tool = "merge" THEN AppLists \cup {<<>>} ELSE {<<>>}) :
                AppStarts(tool, files)
          /\ selectedFiles \in (IF tool = "word-convert" THEN WordLists ELSE {<<>>})
    /\ convBusy = FALSE
    /\ batches = [b \in Batches |-> IdleBatch]
    /\ OthersIdle({"app", "conv"})

\* the controller holds no file and has not been asked for a merge
ControllerUnused ==
    /\ stateFiles = <<>>
    /\ requestPc = "idle"
    /\ sections = NoSections
    /\ confirmsShown = 0
    /\ urlsCreated = 0

\* mergePDFs called from outside the controller
DirectMergeCall ==
    /\ currentTool = "merge"
    /\ ControllerUnused
    /\ CallOverlapping

DirectCancel == currentTool = "merge" /\ Cancel

\* the promise of a direct call is taken
DirectMergeSettled(op) ==
    /\ requestPc = "idle"
    /\ MergeSettled(op)

\* splitPDF or splitIntoIndividualPages is called
BusySplitCall ==
    /\ currentTool = "split"
    /\ \E op \in Ops :
          \/ \E text \in BusyTexts : SplitCall(op, "ranges", ToolDoc(2), text)
          \/ SplitCall(op, "all", ToolDoc(2), <<>>)

BusyConvertRequest ==
    /\ currentTool = "word-convert"
    /\ \E b \in Batches : handleConvertRequest(b)

NextBusy ==
    \/ MergeClick
    \/ ValidationResolved
    \/ RequestCallsMerge
    \/ MergeReturned
    \/ PageHidden
    \/ handleStartOver
    \/ handleRetry
    \/ DirectMergeCall
    \/ DirectCancel
    \/ \E op \in Ops : Passthrough(op)
    \/ \E op \in Ops : LoadFile(op)
    \/ \E op \in Ops : CopyPages(op)
    \/ \E op \in Ops : SaveMerged(op)
    \/ \E op \in Ops : DirectMergeSettled(op)
    \/ BusySplitCall
    \/ \E op \in Ops : SplitLoaded(op)
    \/ \E op \in Ops : SplitJob(op)
    \/ \E op \in Ops : SplitSettled(op)
    \/ BusyConvertRequest
    \/ \E b \in Batches : ConversionSettles(b)
    \/ \E b \in Batches : BatchSettled(b)

SpecBusy == InitBusy /\ [][NextBusy]_vars

(***************************************************************************)
(* The range parser: C1 - C4.                                              *)
(***************************************************************************)
\* the comma-separated tokens of the text, trimmed, the empty ones dropped
Tokens(text) ==
    LET parts == Split(text, ",")
        trimmed == [i \in 1..Len(parts) |-> Trim(parts[i])]
        NotEmpty(t) == t # <<>>
    IN SelectSeq(trimmed, NotEmpty)

\* a decimal integer: one digit or more and nothing else
IsInteger(s) == s # <<>> /\ \A i \in 1..Len(s) : IsDigit(s[i])

\* the value of a decimal integer
RECURSIVE IntegerValue(_)
IntegerValue(s) ==
    IF s = <<>> THEN 0
    ELSE 10 * IntegerValue(SubSeq(s, 1, Len(s) - 1)) + DigitVal(s[Len(s)])

\* the index of the first '-' of a token that has one
FirstDash(t) == CHOOSE i \in 1..Len(t) : t[i] = "-" /\ \A j \in 1..(i - 1) : t[j] # "-"

\* the two sides of a token split on its first '-' only
LeftSide(t) == Trim(SubSeq(t, 1, FirstDash(t) - 1))
RightSide(t) == Trim(SubSeq(t, FirstDash(t) + 1, Len(t)))

\* a token that parses as an integer, or as integer '-' integer
WellFormedToken(t) ==
    IF Includes(t, "-") THEN IsInteger(LeftSide(t)) /\ IsInteger(RightSide(t))
    ELSE IsInteger(t)

\* a well-formed token whose pages are within the document and in order
TokenInBounds(t, n) ==
    IF Includes(t, "-")
    THEN /\ 1 <= IntegerValue(LeftSide(t))
         /\ IntegerValue(LeftSide(t)) <= IntegerValue(RightSide(t))
         /\ IntegerValue(RightSide(t)) <= n
    ELSE 1 <= IntegerValue(t) /\ IntegerValue(t) <= n

HasParsed == parsed # NotParsed

\* C1: every range parse returns satisfies 1 <= start <= end <= totalPages,
\* and parse fails when a well-formed token names a page outside
\* [1, totalPages] or a range with start > end.
C1_RangesWithinBounds ==
    HasParsed =>
        /\ parsed.ok =>
              \A i \in 1..Len(parsed.ranges) :
                  /\ 1 <= parsed.ranges[i].start
                  /\ parsed.ranges[i].start <= parsed.ranges[i].end
                  /\ parsed.ranges[i].end <= totalPages
        /\ LET ts == Tokens(rangesString)
           IN (\E i \in 1..Len(ts) :
                  WellFormedToken(ts[i]) /\ ~TokenInBounds(ts[i], totalPages))
              => ~parsed.ok

\* a text with a range that ends on the last page was parsed to two ranges
C1_Witness ==
    /\ parsed.ok
    /\ Len(parsed.ranges) = 2
    /\ \E i \in 1..2 : /\ parsed.ranges[i].start < parsed.ranges[i].end
                        /\ parsed.ranges[i].end = totalPages

\* C2: parse fails when some comma-separated token does not parse as an
\* integer, or (split on its first '-') as two integers.
C2_MalformedTokenFails ==
    HasParsed =>
        LET ts == Tokens(rangesString)
        IN (\E i \in 1..Len(ts) : ~WellFormedToken(ts[i])) => ~parsed.ok

\* C3: parse fails for empty and white-space-only text and never returns an
\* empty list: a text of separators only fails too.
C3_NeverEmpty ==
    HasParsed =>
        /\ Trim(rangesString) = <<>> => ~parsed.ok
        /\ Tokens(rangesString) = <<>> => ~parsed.ok
        /\ parsed.ok => Len(parsed.ranges) >= 1

\* the text ",," was refused because it holds no range
C3_Witness ==
    /\ rangesString = <<",", ",">>
    /\ parsed = Fail("No valid page ranges found")

\* the ranges of the tokens in the order the tokens appear in the text
RangeOfToken(t) ==
    IF Includes(t, "-")
    THEN [start |-> IntegerValue(LeftSide(t)), end |-> IntegerValue(RightSide(t))]
    ELSE [start |-> IntegerValue(t), end |-> IntegerValue(t)]

AllWellFormed(text) ==
    \A i \in 1..Len(Tokens(text)) : WellFormedToken(Tokens(text)[i])

RangesInTextOrder(text) ==
    [i \in 1..Len(Tokens(text)) |-> RangeOfToken(Tokens(text)[i])]

WithStart(rs, k) ==
    LET StartsAt(r) == r.start = k IN SelectSeq(rs, StartsAt)

\* C4: the list parse returns is ordered by start ascending, and the ranges
\* of equal start keep the order of their tokens in the text.
C4_StableSortByStart ==
    (HasParsed /\ parsed.ok /\ AllWellFormed(rangesString)) =>
        /\ \A i \in 1..(Len(parsed.ranges) - 1) :
               parsed.ranges[i].start <= parsed.ranges[i + 1].start
        /\ Len(parsed.ranges) = Len(RangesInTextOrder(rangesString))
        /\ \A k \in 1..totalPages :
               WithStart(parsed.ranges, k) = WithStart(RangesInTextOrder(rangesString), k)

\* two different ranges of equal start were returned
C4_Witness ==
    /\ parsed.ok
    /\ AllWellFormed(rangesString)
    /\ \E i \in 1..(Len(parsed.ranges) - 1) :
           /\ parsed.ranges[i].start = parsed.ranges[i + 1].start
           /\ parsed.ranges[i].end # parsed.ranges[i + 1].end


(***************************************************************************)
(* The page selection of a merge document: C5.                             *)
(***************************************************************************)
\* a text with a token that is malformed, out of bounds or has start > end
InvalidRangeText(text, n) ==
    \E i \in 1..Len(Tokens(text)) :
        \/ ~WellFormedToken(Tokens(text)[i])
        \/ ~TokenInBounds(Tokens(text)[i], n)

\* C5: an edit of the range text that leaves an invalid text leaves the
\* checkboxes exactly as they were.
C5_InvalidTextLeavesSelection ==
    [][((TypeChar \/ DeleteChar) /\ InvalidRangeText(rangeInput', docPages))
          => checked' = checked]_vars


(***************************************************************************)
(* The merge processor: C6, C8, C9.                                        *)
(***************************************************************************)
\* an invocation that returned a merged document in advanced mode
MergedAdvanced(m) == m.pc = "done" /\ m.result.kind = "merged" /\ m.sel.advanced

\* the pages of the merged document that come from f
PagesFrom(pages, f) == SelectSeq(pages, LAMBDA pg : pg.file = f)

\* the pages [f:p] for the page numbers of a list
Labelled(f, nums) == [k \in 1..Len(nums) |-> [file |-> f, page |-> nums[k]]]

\* C6 as stated: in advanced merge mode a document that has no entry in the
\* selection map contributes no page to the merged document.
C6_NoEntryContributesNothing ==
    \A op \in Ops :
        MergedAdvanced(merges[op]) =>
            \A f \in SeqRange(merges[op].files) :
                f \notin DOMAIN merges[op].sel.pages =>
                    PagesFrom(merges[op].result.pages, f) = <<>>

\* C6, amended: in advanced merge mode a document with an entry contributes
\* exactly its listed pages in that order, and a document that has no entry
\* contributes all of its pages in natural order; the documents contribute in
\* list order.
RECURSIVE AdvancedContribution(_, _)
AdvancedContribution(files, sel) ==
    IF files = <<>> THEN <<>>
    ELSE LET f == Head(files)
         IN (IF f \in DOMAIN sel.pages
             THEN Labelled(f, sel.pages[f])
             ELSE Labelled(f, [k \in 1..PageCountOf(f) |-> k]))
            \o AdvancedContribution(Tail(files), sel)

C6_NoEntryContributesAllPages ==
    \A op \in Ops :
        MergedAdvanced(merges[op]) =>
            merges[op].result.pages = AdvancedContribution(merges[op].files, merges[op].sel)

\* A -> [1], B -> [2, 3], no entry for C: A:1, B:2, B:3 and then all of C
C6_Witness ==
    /\ MergedAdvanced(merges[1])
    /\ merges[1].files = <<"A", "B", "C">>
    /\ merges[1].sel.pages = ("A" :> <<1>> @@ "B" :> <<2, 3>>)
    /\ merges[1].result.pages =
           <<[file |-> "A", page |-> 1], [file |-> "B", page |-> 2],
             [file |-> "B", page |-> 3]>> \o Labelled("C", [k \in 1..PageCountOf("C") |-> k])

\* the invocations that set the busy flag and have not ended
InFlight == {op \in Ops : merges[op].pc \in {"load", "copy", "save"}}

\* C8 as stated: at most one merge is in flight on the processor at any time,
\* whatever the interleaving of invocations, completions and cancel calls.
C8_AtMostOneInFlight == Cardinality(InFlight) <= 1

\* C9 as stated: a file whose load or page copy fails is skipped, so a merge
\* fails because of a file only when no file gave any page.
C9_FailingFileSkipped ==
    \A op \in Ops :
        (merges[op].pc = "failed" /\ merges[op].failed # {}) => merges[op].out = <<>>

\* C9, amended: a file whose load or page copy fails ends the merge: the merge
\* fails with that file named in the error, it returns no document, the files
\* after it are not processed, and a merge that returns a document had no
\* failing file.
C9_FailingFileFailsMerge ==
    \A op \in Ops :
        LET m == merges[op]
        IN /\ m.failed # {} =>
                 /\ m.pc = "failed"
                 /\ m.result.kind = "error"
                 /\ m.result.pages = <<>>
                 /\ m.failed = {m.result.file}
                 /\ m.i > 0 => m.files[m.i] = m.result.file
           /\ m.pc = "done" => m.failed = {}

\* a first file was copied, the second one failed, a third one was never tried
C9_Witness ==
    /\ merges[1].pc = "failed"
    /\ Len(merges[1].files) = 3
    /\ merges[1].i = 2
    /\ merges[1].failed = {merges[1].files[2]}
    /\ merges[1].out # <<>>


(***************************************************************************)
(* The split tool: C7.                                                     *)
(***************************************************************************)
\* C7 as stated: while a file is loaded every divider lies in
\* [1, pageCount - 1], after any sequence of file selection, method switch,
\* toggleDivider, add-all, clear-all and clear.
C7_DividersWithinFile ==
    currentFile # 0 => \A d \in splitDividers : 1 <= d /\ d <= pageCount - 1


(***************************************************************************)
(* The Word conversion batch: C10.                                         *)
(***************************************************************************)
\* the files of the outcomes of a batch, in the order they were tried
Tried(bt) == [k \in 1..Len(bt.outcomes) |-> bt.outcomes[k].file]

\* the files a batch converted, in the order they were tried
Converted(bt) == Tried([bt EXCEPT !.outcomes = SelectSeq(@, LAMBDA o : o.ok)])

Finished(bt) == bt.pc \in {"done", "failed"}

C11_LinesWithinBudget ==
    (wrapped.done /\ MaxCharsPerLine(wrapWidth, wrapFontSize) >= 1) =>
        \A k \in 1..Len(wrapped.lines) :
            Len(wrapped.lines[k]) <= MaxCharsPerLine(wrapWidth, wrapFontSize)


(***************************************************************************)
(* The splitter: C12, C13.                                                 *)
(***************************************************************************)
\* the page numbers a job copied, in the order it copied them
JobPages(job) == [k \in 1..Len(job.copied) |-> job.copied[k] + 1]

\* the pages start..end, ascending
Interval(range) == [k \in 1..(range.end - range.start + 1) |-> range.start + k - 1]

\* a split that returned its results
SplitDone(sp, mode) == sp.pc = "done" /\ sp.mode = mode

\* C12: a split in ranges mode returns one job per range parse returns, in
\* parse's order; job k copies exactly the pages start..end of range k,
\* ascending; overlapping ranges stay separate jobs and a page no range covers
\* is in no job.
C12_OneJobPerRange ==
    \A op \in Ops :
        SplitDone(splits[op], "ranges") =>
            LET sp == splits[op]
                rs == validateAndParseRanges(sp.text, sp.doc.pages).ranges
            IN /\ Len(sp.results) = Len(rs)
               /\ \A k \in 1..Len(rs) : JobPages(sp.results[k]) = Interval(rs[k])
               /\ \A p \in 1..sp.doc.pages :
                     (\A k \in 1..Len(rs) : p < rs[k].start \/ p > rs[k].end) =>
                         \A k \in 1..Len(sp.results) : p \notin SeqRange(JobPages(sp.results[k]))

\* '2,1-2' on a document of three pages: a job of pages 1, 2 and a job of
\* page 2; page 3 is in no job
C12_Witness ==
    /\ SplitDone(splits[1], "ranges")
    /\ splits[1].doc.pages = 3
    /\ splits[1].text = <<"2", ",", "1", "-", "2">>
    /\ Len(splits[1].results) = 2
    /\ splits[1].results[1].copied = <<0, 1>>
    /\ splits[1].results[2].copied = <<1>>

\* C13: a split in all mode of a document of N pages returns N jobs; job n
\* holds exactly page n and is named {basename}_page_{n}.pdf; the jobs' pages
\* are pairwise distinct and cover 1..N.
C13_OneJobPerPage ==
    \A op \in Ops :
        SplitDone(splits[op], "all") =>
            LET sp == splits[op]
            IN /\ Len(sp.results) = sp.doc.pages
               /\ \A n \in 1..Len(sp.results) :
                     /\ JobPages(sp.results[n]) = <<n>>
                     /\ sp.results[n].filename
                            = sp.doc.base \o "_page_" \o ToString(n) \o ".pdf"
               /\ \A n1, n2 \in 1..Len(sp.results) :
                     n1 # n2 => sp.results[n1].copied # sp.results[n2].copied
               /\ UNION {SeqRange(JobPages(sp.results[n])) : n \in 1..Len(sp.results)}
                      = 1..sp.doc.pages

\* scan.PDF split into its pages
C13_Witness ==
    /\ SplitDone(splits[1], "all")
    /\ splits[1].doc.ext = ".PDF"
    /\ splits[1].doc.pages = MaxPages
    /\ Len(splits[1].results) = MaxPages
    /\ splits[1].results[MaxPages].filename = "scan_page_" \o ToString(MaxPages) \o ".pdf"


(***************************************************************************)
(* The dividers of the visual split: C14.                                  *)
(***************************************************************************)
\* the pages of a range
RangePages(range) == range.start..range.end

\* C14: for a divider set within 1..pageCount-1, getDividerRanges returns one
\* range more than there are dividers, the first starting at page 1, each
\* ending at a divider and the next starting right after it, the last ending
\* at pageCount, so that every page of the file lies in exactly one range;
\* with no divider it returns the single range 1..pageCount.
C14_DividerRangesPartition ==
    (currentFile # 0 /\ splitDividers \subseteq 1..(pageCount - 1)) =>
        LET rs == getDividerRanges(splitDividers, pageCount)
        IN /\ Len(rs) = Cardinality(splitDividers) + 1
           /\ rs[1].start = 1
           /\ rs[Len(rs)].end = pageCount
           /\ \A k \in 1..Len(rs) : rs[k].start <= rs[k].end
           /\ \A k \in 1..(Len(rs) - 1) :
                 rs[k].end \in splitDividers /\ rs[k + 1].start = rs[k].end + 1
           /\ \A p \in 1..pageCount :
                 Cardinality({k \in 1..Len(rs) : p \in RangePages(rs[k])}) = 1
           /\ (splitDividers = {} => rs = <<[start |-> 1, end |-> pageCount]>>)

C14_Witness ==
    /\ currentFile = MaxPages
    /\ pageCount = MaxPages
    /\ splitDividers = {1, MaxPages - 1}
    /\ Len(getDividerRanges(splitDividers, pageCount)) = 3


(***************************************************************************)
(* The visual split: C15, C16.                                             *)
(***************************************************************************)
\* a step that is a split request made with the visual method checked
VisualRequest ==
    /\ splits[1].pc = "idle"
    /\ splits'[1].pc # "idle"
    /\ currentFile # 0
    /\ splitMethod = "visual"

\* the maximal runs of consecutive pages of a set, in ascending order
MaximalRuns(S) ==
    LET starts == SortedSeq({a \in S : a - 1 \notin S})
        EndOf(a) == CHOOSE b \in S : b >= a /\ (a..b) \subseteq S /\ b + 1 \notin S
    IN [k \in 1..Len(starts) |-> [start |-> starts[k], end |-> EndOf(starts[k])]]

\* C15: a visual split requested with no divider fails with the
\* empty-selection error and no output when no page is checked, and otherwise
\* plans one output file per maximal run of consecutive checked pages.
C15_MaskSplit ==
    [][(VisualRequest /\ splitDividers = {}) =>
          IF checkedPages = {}
          THEN /\ splits'[1].pc = "failed"
               /\ splits'[1].error = "Please select at least one page to split"
               /\ splits'[1].results = <<>>
          ELSE /\ AfterSplitLoad(splits'[1]).pc = "job"
               /\ AfterSplitLoad(splits'[1]).ranges = MaximalRuns(checkedPages)]_vars

\* no load of a file and no thumbnail generation is pending
Quiescent == loadPc = "idle" /\ visualPending = 0

\* the ranges lie within a document of n pages
WithinDoc(ranges, n) ==
    \A k \in 1..Len(ranges) : 1 <= ranges[k].start /\ ranges[k].end <= n

IsNumeral(t, n) == IsInteger(t) /\ (Len(t) > 1 => t[1] # "0") /\ IntegerValue(t) = n

\* the token writes the run: the page itself, or 'start-end' for two or more
TokenWritesRun(t, run) ==
    IF run.start = run.end THEN IsNumeral(t, run.start)
    ELSE /\ Cardinality({i \in 1..Len(t) : t[i] = "-"}) = 1
         /\ IsNumeral(SubSeq(t, 1, FirstDash(t) - 1), run.start)
         /\ IsNumeral(SubSeq(t, FirstDash(t) + 1, Len(t)), run.end)

\* C17: the text pagesToRangeText returns for distinct pages is the tokens
\* of the maximal runs of consecutive pages in ascending order, joined by
\* ', ': 'a-b' for a run of two or more pages and the page for a single one,
\* and the empty text for no page.
C17_MinimalRangeText ==
    formatted.done =>
        LET runs  == MaximalRuns(SeqRange(formatInput))
            parts == Split(formatted.text, ",")
        IN IF formatInput = <<>> THEN formatted.text = <<>>
           ELSE /\ Len(parts) = Len(runs)
                /\ TokenWritesRun(parts[1], runs[1])
                /\ \A k \in 2..Len(parts) :
                      /\ parts[k] # <<>>
                      /\ Head(parts[k]) = " "
                      /\ TokenWritesRun(Tail(parts[k]), runs[k])

C17_Witness ==
    /\ formatted.done
    /\ formatInput = <<8, 7, 5, 3, 2, 1>>
    /\ formatted.text = <<"1", "-", "3", ",", " ", "5", ",", " ", "7", "-", "8">>


(***************************************************************************)
(* The range text and the checkboxes of a merge document: C18.             *)
(***************************************************************************)
\* the pages the ranges cover
PagesCovered(ranges) == UNION {RangePages(ranges[k]) : k \in 1..Len(ranges)}

\* the text pagesToRangeText writes for a set of pages
TextOfPages(P) == pagesToRangeText(SortedSeq(P))

\* the 'all' radio button was picked last: the input is empty and disabled
AllPicked == rangeInput = <<>> /\ checked = 1..docPages

DoneSimple(m) == m.pc = "done" /\ ~m.sel.advanced

\* the number of pages of the documents before index j of a list
RECURSIVE PagesBefore(_, _)
PagesBefore(files, j) ==
    IF j <= 1 THEN 0 ELSE PagesBefore(files, j - 1) + PageCountOf(files[j - 1])

\* C19: in simple mode the merged document holds, for each document of the
\* list in list order, all of its pages in page order and nothing else: its
\* page count is the sum of the documents' page counts.  A list of one
\* document is returned as the document itself.
C19_SimpleModeAllPages ==
    \A op \in Ops :
        DoneSimple(merges[op]) =>
            LET m == merges[op]
            IN IF Len(m.files) = 1
               THEN m.result.kind = "bytes" /\ m.result.file = m.files[1]
               ELSE /\ m.result.kind = "merged"
                    /\ Len(m.result.pages) = PagesBefore(m.files, Len(m.files) + 1)
                    /\ \A j \in 1..Len(m.files) :
                          \A p \in 1..PageCountOf(m.files[j]) :
                              m.result.pages[PagesBefore(m.files, j) + p] =
                                  [file |-> m.files[j], page |-> p]

C19_Witness ==
    /\ DoneSimple(merges[1])
    /\ merges[1].files = <<"B", "C", "A">>
    /\ Len(merges[1].result.pages) = MaxPages + 3
    /\ merges[1].result.pages[MaxPages + 1] = [file |-> "C", page |-> 1]

\* the documents of the list whose entry in the map is the empty list
EmptyEntry(sel, f) == sel.advanced /\ f \in DOMAIN sel.pages /\ sel.pages[f] = <<>>

\* the list without the documents of an empty entry
WithoutEmpty(files, sel) == SelectSeq(files, LAMBDA f : ~EmptyEntry(sel, f))

\* C20: in advanced mode a document whose entry is the empty list gives no
\* page to the merged document, which is what the other documents alone
\* would give, in list order; no copy is attempted for it, so the merge goes
\* on to the next document.
C20_EmptyEntrySkipped ==
    \A op \in Ops :
        LET m == merges[op]
        IN /\ MergedAdvanced(m) =>
                 /\ \A f \in SeqRange(m.files) :
                       EmptyEntry(m.sel, f) => PagesFrom(m.result.pages, f) = <<>>
                 /\ m.result.pages = AdvancedContribution(WithoutEmpty(m.files, m.sel), m.sel)
           /\ m.pc = "copy" => ~EmptyEntry(m.sel, m.files[m.i])

C20_Witness ==
    /\ MergedAdvanced(merges[1])
    /\ merges[1].files = <<"C", "B", "A">>
    /\ merges[1].sel.pages = ("A" :> <<1>> @@ "B" :> <<>> @@ "C" :> <<1, 2>>)
    /\ merges[1].result.pages =
           <<[file |-> "C", page |-> 1], [file |-> "C", page |-> 2],
             [file |-> "A", page |-> 1]>>


(***************************************************************************)
(* The merge of a single document: C21.                                    *)
(***************************************************************************)
\* an invocation handed one document and no page selection for it
SingleNoSelection(m) ==
    m.pc # "idle" /\ Len(m.files) = 1 /\ ~HasEntry(m.sel, m.files[1])

\* C21: mergePDFs called with one document and no page selection for it
\* returns the bytes of that document: while it runs the busy flag is not
\* set, no document is loaded and no page is copied, and what it returns is
\* the document itself, not a merged one.
C21_SingleDocumentPassthrough ==
    SingleNoSelection(merges[1]) =>
        LET m == merges[1]
        IN /\ m.pc \in {"passthrough", "done", "failed"}
           /\ ~procBusy
           /\ m.i = 0
           /\ m.out = <<>>
           /\ m.pc = "done" =>
                 /\ m.result.kind = "bytes"
                 /\ m.result.file = m.files[1]
                 /\ m.result.pages = <<>>

C21_Witness ==
    /\ SingleNoSelection(merges[1])
    /\ merges[1].pc = "done"
    /\ merges[1].files = <<"B">>
    /\ merges[1].sel.advanced
    /\ merges[1].result = [kind |-> "bytes", file |-> "B", pages |-> <<>>, message |-> ""]


(***************************************************************************)
(* cancel: C22.                                                            *)
(***************************************************************************)
\* the invocation ended by itself in this step: it returned, or a file or
\* the save failed
EndedByItself(op) ==
    /\ merges[op].pc \in {"load", "copy", "save"}
    /\ merges'[op].pc \in {"done", "failed"}
    /\ merges'[op].pc = "failed" => (merges'[op].failed # {} \/ merges[op].pc = "save")
    /\ \A other \in Ops \ {op} : merges'[other] = merges[other]

\* C22: the busy flag is cleared either by an invocation that ends by itself
\* or by cancel, which changes no invocation; an invocation is rejected as
\* already in progress only while the flag is set, so not right after
\* cancel; and every invocation in flight, cancelled or not, comes to its
\* end.
C22_CancelOnlyClearsFlag ==
    /\ [][/\ (procBusy /\ ~procBusy') =>
                 (merges' = merges \/ \E op \in Ops : EndedByItself(op))
          /\ \A op \in Ops :
                 (merges[op].pc = "idle" /\ merges'[op].pc = "rejected"
                     /\ merges'[op].files # <<>>) => procBusy]_vars
    /\ \A op \in Ops :
          (merges[op].pc \in {"load", "copy", "save"}) ~> (merges[op].pc \in {"done", "failed"})

\* cancel was called while the first merge was in flight: a second one was
\* accepted, and the first one has returned its merged document
C22_Witness ==
    /\ merges[1].pc = "done"
    /\ merges[1].result.kind = "merged"
    /\ merges[2].pc \in {"load", "copy", "save"}
    /\ merges[2].i = 1
    /\ ~procBusy


(***************************************************************************)
(* The memory warning: C23.                                                *)
(***************************************************************************)
\* 2.5 times the bytes of the files is more than 100 MiB
OverBudget(files) == 5 * TotalSize(files) > 2 * 100 * 1024 * 1024

\* the user was asked and declined in this step
Declines == confirmsShown' = confirmsShown + 1 /\ proceed' = "no"

\* C23: a request for files over the budget is validating or merging only
\* after confirm() was answered with yes; a step in which the user declines
\* changes nothing else: the controller is idle, isProcessing is false, no
\* file is validated, no merge is called, the files are the same.
C23_ConfirmBeforeLargeMerge ==
    [][/\ (requestPc = "idle" /\ requestPc' # "idle" /\ OverBudget(stateFiles)) =>
             (proceed' = "yes" /\ confirmsShown' = confirmsShown + 1)
       /\ Declines =>
             /\ requestPc' = "idle"
             /\ ~stateIsProcessing'
             /\ validationResults' = <<>>
             /\ UNCHANGED <<stateFiles, listFiles, sections, merges, procBusy, downloadVars>>]_vars

\* the user declined the merge of A and B, 5 bytes over the budget: the file
\* list is displayed as before and nothing is in progress
C23_Witness ==
    /\ stateFiles = <<"A", "B">>
    /\ estimateMemoryUsage(stateFiles) = maxRecommended + 5
    /\ confirmsShown = 1
    /\ proceed = "no"
    /\ requestPc = "idle"
    /\ ~stateIsProcessing
    /\ sections.fileList


(***************************************************************************)
(* The pages of a conversion: C24.                                         *)
(***************************************************************************)
\* the kinds of the texts drawn on a page
KindsOn(page) == {page[k].kind : k \in 1..Len(page)}

\* C24: a finished layout has at least one page; with no text block it is
\* exactly one page that holds the notice and nothing else, no title.
C24_NeverZeroPages ==
    layoutPc = "done" =>
        /\ Len(pdfPages) >= 1
        /\ textContent = <<>> =>
              /\ Len(pdfPages) = 1
              /\ Len(pdfPages[1]) = 1
              /\ KindsOn(pdfPages[1]) = {"notice"}
        /\ textContent # <<>> => "notice" \notin UNION {KindsOn(pdfPages[p]) : p \in 1..Len(pdfPages)}

\* no text block: the single page with the notice
C24_Witness ==
    /\ layoutPc = "done"
    /\ textContent = <<>>
    /\ pdfPages = <<NoticePage>>


(***************************************************************************)
(* The busy flags: C25.                                                    *)
(***************************************************************************)
\* the invocations that have set the flag of their processor and not ended
MergesRunning == {op \in Ops : merges[op].pc \in {"load", "copy", "save"}}
SplitsRunning == {op \in Ops : splits[op].pc \in {"load", "job"}}
BatchesConverting == {b \in Batches : batches[b].pc = "converting"}

\* the invocation of slot op is rejected in this step as already in progress
MergeRejected(op) ==
    /\ merges[op].pc = "idle" /\ merges'[op].pc = "rejected"
    /\ merges'[op].result.message = "PDF processing is already in progress"
SplitRejected(op) ==
    /\ splits[op].pc = "idle" /\ splits'[op].pc = "rejected"

\* C25: with no merge, split or conversion running on a processor its flag
\* is false, and the flag of the controller is false when no request is
\* under way; an invocation rejected as already in progress leaves the flag
\* set and the running invocations as they are.
C25_BusyFlagsCleared ==
    /\ [](/\ MergesRunning = {} => ~procBusy
          /\ SplitsRunning = {} => ~splitterBusy
          /\ BatchesConverting = {} => ~convBusy
          /\ requestPc = "idle" => ~stateIsProcessing)
    /\ [][/\ \A op \in Ops : MergeRejected(op) =>
                 (procBusy' /\ \A other \in Ops \ {op} : merges'[other] = merges[other])
          /\ \A op \in Ops : SplitRejected(op) =>
                 (splitterBusy' /\ \A other \in Ops \ {op} : splits'[other] = splits[other])]_vars

\* a second split was rejected while the first one runs: the flag is still
\* set
C25_Witness ==
    /\ splits[1].pc = "job"
    /\ splits[2].pc = "rejected"
    /\ splitterBusy


(***************************************************************************)
(* The file list after clear: C26.                                         *)
(***************************************************************************)
\* the user adds files in this step
UserAdds == adds.pc = "idle" /\ adds'.pc # "idle"

\* C26: an empty file list gets a file only when the user adds files, and
\* every thumbnail entry belongs to a file of the list; so after clear the
\* list stays empty and no thumbnail entry is left over, whatever was
\* pending when clear ran.
C26_ClearedListStaysEmpty ==
    /\ [](thumbnailsData \subseteq SeqRange(listFiles))
    /\ [][(listFiles = <<>> /\ listFiles' # <<>>) => UserAdds]_vars


(***************************************************************************)
(* The thumbnails of a file: C27.                                          *)
(***************************************************************************)
\* C27: a call that returns without an error returns the thumbnails of the
\* pages 1..min(maxPages, pageCount) and says whether the file has more
\* pages than maxPages, from the cache or not.
C27_ThumbnailsForMaxPages ==
    (thumbnailCall.pc = "returned" /\ thumbnailCall.result.error = "none") =>
        LET count    == thumbnailCall.file
            limit    == thumbnailCall.maxPages
            shown    == IF limit < count THEN limit ELSE count
        IN /\ Len(thumbnailCall.result.thumbnails) = shown
           /\ \A k \in 1..shown : thumbnailCall.result.thumbnails[k] = k
           /\ thumbnailCall.result.hasMore = (count > limit)


(***************************************************************************)
(* A convert request during a running batch: C28.                          *)
(***************************************************************************)
\* the request of batch b is made in this step
Requested(b) == batches[b].pc = "idle" /\ batches'[b].pc # "idle"

\* C28: a convert request made while a batch is converting leaves that batch
\* and the converter's flag as they are, and every file of the request is
\* refused; the running batch holds the converter until its conversion
\* settles and then goes on with its next file, one file at a time.
C28_RunningBatchUndisturbed ==
    /\ [](\A b \in Batches : batches[b].pc = "converting" => convBusy)
    /\ [][\A b \in Batches :
            batches[b].pc = "converting" =>
              /\ \A c \in Batches \ {b} :
                     Requested(c) =>
                       /\ batches'[b] = batches[b]
                       /\ convBusy'
                       /\ batches'[c].pc = "failed"
                       /\ Len(batches'[c].outcomes) = Len(selectedFiles)
                       /\ \A k \in 1..Len(selectedFiles) : ~batches'[c].outcomes[k].ok
              /\ batches'[b] # batches[b] =>
                     /\ batches'[b].i = batches[b].i + 1
                     /\ batches'[b].outcomes[batches'[b].i].file
                            = selectedFiles[batches'[b].i]
                     /\ batches'[b].pc = "converting" <=> batches'[b].i < Len(selectedFiles)]_vars

\* a second request was refused while the first batch was converting, and the
\* first batch has converted all its files
C28_Witness ==
    /\ Len(selectedFiles) >= 2
    /\ batches[1].pc = "done"
    /\ batches[1].results = selectedFiles
    /\ batches[2].pc = "failed"
    /\ Len(batches[2].outcomes) = Len(selectedFiles)


(***************************************************************************)
(* The shared sections: C29.                                               *)
(***************************************************************************)
\* C29: at most one of the progress, result and error sections is visible.
C29_OneSectionVisible ==
    /\ ~(sections.progress /\ sections.result)
    /\ ~(sections.progress /\ sections.error)
    /\ ~(sections.result /\ sections.error)

(***************************************************************************)
(* The download URL of the merge result: C30.                              *)
(***************************************************************************)
\* C30: while the result section shows a download button, the URL bound to
\* the button has not been revoked.
C30_OfferedUrlNotRevoked ==
    (sections.result /\ downloadBtn # 0) => downloadBtn \notin revokedUrls

====
